---- MODULE Spec2Model ----
(***************************************************************************)
(* A model of the key-value store of maxm86545/concurrency_go:             *)
(*   storage.inMemoryEngine  (map + mutex)                                 *)
(*   storage.Storage         (context check, ErrNotFound)                  *)
(*   compute.Compute         (the command parser)                          *)
(*   database.Database       (Exec: pre-flight check, parse, dispatch)     *)
(*   cli.App                 (Run: the scanner loop over stdin)            *)
(*                                                                         *)
(* Bytes are integers 0..255 and byte strings are sequences of them.  A Go *)
(* slice is a reference into a backing array, so the model keeps a heap of *)
(* backing arrays and represents a []byte as [buf, off, len]: what a slice *)
(* holds is read from the heap at the moment it is read.                   *)
(***************************************************************************)
EXTENDS Integers, Sequences, FiniteSets, TLC

VARIABLES
    heap,     \* backing arrays: a sequence of byte sequences, addressed by index
    m,        \* inMemoryEngine.m: string key -> []byte (a slice reference)
    mu,       \* inMemoryEngine.mu: 0 when free, else the caller holding it
    ctx,      \* per caller: the state of the context it passes ("nil" = live)
    pc,       \* per caller: where it is in its current call
    fr,       \* per caller: the frame of the current call (entry, op, key, val, raw)
    sres,     \* per caller: what the last Storage call returned
    xres,     \* per caller: what the last Exec call returned
    eff,      \* per caller: the engine operations its current call has performed
    hist,     \* the history of engine calls (invocation and return order)
    calls,    \* number of top-level calls started so far
    maxLen,   \* Compute.maxLen
    input,    \* the lines that are fed to the front end
    stdin,    \* cli.App.stdin: the bytes not yet read
    stdinOpen, \* whether more bytes may still arrive on stdin (a terminal, a pipe)
    sc,       \* the bufio.Scanner of App.Run: buf, start, end, err, token
    stdout,   \* cli.App.stdout: the lines written
    stderr,   \* cli.App.stderr: the lines written
    run,      \* where App.Run is: "off", "scan", "exec", "wait", "done"
    broken,   \* the channels among "stdin", "stdout", "stderr" whose reads or writes may fail
    werr,     \* the write that failed in App.Run: its channel, and whether it was the
              \* write of the data or of the newline ("none" when no write has failed)
    parsed    \* what a direct caller of Compute.Parse passed and got back

\* The front end's state
cliVars == <<input, stdin, stdinOpen, sc, stdout, stderr, run, broken, werr>>

vars == <<heap, m, mu, ctx, pc, fr, sres, xres, eff, hist, calls, maxLen, cliVars, parsed>>

----------------------------------------------------------------------------
(* Bounds of the model *)

\* cmd/server: the maximum command length handed to NewCompute
maxCommandLen == 128

NProcs == 3

MaxCalls == 3

Procs == 1..NProcs

----------------------------------------------------------------------------
(* Slices and the heap *)

NilSlice == [buf |-> 0, off |-> 0, len |-> 0]

Slice(b, o, n) == [buf |-> b, off |-> o, len |-> n]

\* The bytes a slice holds in heap h, now.
Bytes(h, s) == IF s.buf = 0 \/ s.len = 0 THEN <<>> ELSE SubSeq(h[s.buf], s.off + 1, s.off + s.len)

\* s[lo:hi]
SubSlice(s, lo, hi) == [buf |-> s.buf, off |-> s.off + lo, len |-> hi - lo]

----------------------------------------------------------------------------
(* Errors: the message parts and the sentinels errors.Is finds in the chain *)

NilErr == [msg |-> <<>>, is |-> {}]

Sentinel(name) == [msg |-> <<name>>, is |-> {name}]

ErrNotFound == Sentinel("storage: not found")

Canceled == Sentinel("context canceled")

DeadlineExceeded == Sentinel("context deadline exceeded")

\* ctx.Err()
CtxErr(c) == CASE c = "nil" -> NilErr
               [] c = "Canceled" -> Canceled
               [] c = "DeadlineExceeded" -> DeadlineExceeded

----------------------------------------------------------------------------
(* inMemoryEngine: the map operations made inside the critical section *)

EmptyMap == [k \in {} |-> NilSlice]

\* A Set that writes the value under every key of the map
MapSetAllKeys(mm, k, v) == [x \in (DOMAIN mm) \cup {k} |-> v]

\* A Set that keeps the value of a key that is present
MapSetIfAbsent(mm, k, v) == [x \in (DOMAIN mm) \cup {k} |-> IF x \in DOMAIN mm THEN mm[x] ELSE v]

\* e.m[string(key)] = value: the key is copied into a string, the value slice is stored as it is
MapSet(mm, k, v) == [x \in (DOMAIN mm) \cup {k} |-> IF x = k THEN v ELSE mm[x]]

\* value, ok := e.m[string(key)]
MapGet(mm, k) == IF k \in DOMAIN mm THEN [value |-> mm[k], ok |-> TRUE]
                 ELSE [value |-> NilSlice, ok |-> FALSE]

\* A Del that removes nothing
MapDelNothing(mm, k) == mm

\* A Del that compares keys by their length only
MapDelSameLen(mm, k) == [x \in {y \in DOMAIN mm : Len(y) # Len(k)} |-> mm[x]]

\* delete(e.m, string(key))
MapDel(mm, k) == [x \in (DOMAIN mm) \ {k} |-> mm[x]]

NoGot == [value |-> NilSlice, ok |-> FALSE]

\* A caller's frame: the entry point it called, the Storage operation and its
\* arguments, Exec's raw query, the engine's return values; and, for the
\* claims, the index of the engine call in the history (h) and the engine map
\* as it was when Exec was called (m0)
NoFrame == [entry |-> "none", op |-> "none", key |-> NilSlice, val |-> NilSlice,
            raw |-> NilSlice, got |-> NoGot, h |-> 0, m0 |-> EmptyMap]

NoSRes == [op |-> "none", value |-> NilSlice, err |-> NilErr]

NoXRes == [Status |-> "StatusUndefined", Err |-> NilErr, Data |-> NilSlice]

\* A Lock that never waits
MutexNeverHeld(holder) == TRUE

\* sync.Mutex: Lock proceeds only when no caller holds the mutex
MutexFree(holder) == holder = 0

\* e.mu.Lock()
EngineLock(p) ==
    /\ pc[p] = "lock"
    /\ MutexFree(mu)
    /\ mu' = p
    /\ pc' = [pc EXCEPT ![p] = "crit"]
    /\ UNCHANGED <<heap, m, ctx, fr, sres, xres, eff, hist, calls, maxLen, cliVars, parsed>>

\* The engine map after operation op with key bytes k and value slice v
EngineApply(mm, op, k, v) ==
    CASE op = "Set" -> MapSet(mm, k, v)
      [] op = "Del" -> MapDel(mm, k)
      [] OTHER -> mm

\* What the engine operation hands back: Get's (value, ok); Set and Del return nothing
EngineResult(mm, op, k) == IF op = "Get" THEN MapGet(mm, k) ELSE NoGot

\* Whether another caller is inside the critical section while p is: the
\* mutex rules it out, and without it the map access would be a data race
Racing(p) == \E q \in Procs \ {p} : pc[q] \in {"crit", "unlock"}

\* The slice headers a racing read can produce from those stored: pointer and
\* length taken from different writes
Torn(mm) == {Slice(mm[a].buf, mm[a].off, mm[b].len) : a \in DOMAIN mm, b \in DOMAIN mm}

\* The statement between Lock and the deferred Unlock.  Under the mutex the
\* access is atomic; a racing access may lose the update or read a torn value.
EngineAccess(p) ==
    /\ pc[p] = "crit"
    /\ LET k == Bytes(heap, fr[p].key) IN
        /\ \/ /\ m' = EngineApply(m, fr[p].op, k, fr[p].val)
              /\ fr' = [fr EXCEPT ![p].got = EngineResult(m, fr[p].op, k)]
           \/ /\ Racing(p)
              /\ m' = m
              /\ \E g \in {NoGot} \cup {[value |-> v, ok |-> TRUE] : v \in Torn(m)} :
                    fr' = [fr EXCEPT ![p].got = IF fr[p].op = "Get" THEN g ELSE NoGot]
        /\ eff' = [eff EXCEPT ![p] = Append(@, [op |-> fr[p].op, key |-> k, val |-> fr[p].val])]
    /\ hist' = [hist EXCEPT ![fr[p].h].ser = 1 + Cardinality({i \in 1..Len(hist) : hist[i].ser # 0})]
    /\ pc' = [pc EXCEPT ![p] = "unlock"]
    /\ UNCHANGED <<heap, mu, ctx, sres, xres, calls, maxLen, cliVars, parsed>>

----------------------------------------------------------------------------
(* Storage: the context check before the engine call, and the result after *)

\* Where a Storage call returns to: the caller of Storage, or Exec
ReturnPoint(entry) == IF entry = "exec" THEN "sret" ELSE "idle"

\* A Get that takes a value of length 0 for an absent key
StorageReturnByLen(op, got) ==
    IF op = "Get"
    THEN IF got.value.len = 0
         THEN [op |-> op, value |-> NilSlice, err |-> ErrNotFound]
         ELSE [op |-> op, value |-> got.value, err |-> NilErr]
    ELSE [op |-> op, value |-> NilSlice, err |-> NilErr]

\* A Get that reports an absent key as a nil value with a nil error
StorageReturnNoErr(op, got) ==
    [op |-> op, value |-> IF op = "Get" THEN got.value ELSE NilSlice, err |-> NilErr]

\* What Storage returns once the engine call is back
StorageReturn(op, got) ==
    IF op = "Get"
    THEN IF ~got.ok
         THEN [op |-> op, value |-> NilSlice, err |-> ErrNotFound]
         ELSE [op |-> op, value |-> got.value, err |-> NilErr]
    ELSE [op |-> op, value |-> NilSlice, err |-> NilErr]

\* A Storage without the context check
StorageAlwaysProceeds(e) == TRUE

\* Whether Storage goes on to the engine, given ctx.Err()
StorageProceeds(e) == e = NilErr

\* The history record of an engine call that has been invoked and has not returned:
\* inv and ret number the invocations and returns in the order they happen,
\* ser numbers the critical sections in the order they are entered
Invoked(h, p, op, k, v) ==
    [p |-> p, op |-> op, key |-> k, arg |-> v, inv |-> Len(h) + Cardinality({i \in 1..Len(h) : h[i].ret # 0}) + 1,
     ser |-> 0, ret |-> 0, out |-> <<>>]

\* The history with the call at index i returned, with outcome out
Returned(h, i, out) ==
    [h EXCEPT ![i].ret = Len(h) + Cardinality({j \in 1..Len(h) : h[j].ret # 0}) + 1, ![i].out = out]

\* Storage.Set / Get / Del up to the engine call
StorageEnter(p, entry, op, key, val) ==
    LET e == CtxErr(ctx[p]) IN
    IF StorageProceeds(e)
    THEN /\ pc' = [pc EXCEPT ![p] = "lock"]
         /\ fr' = [fr EXCEPT ![p] = [@ EXCEPT !.entry = entry, !.op = op, !.key = key,
                                               !.val = val, !.got = NoGot, !.h = Len(hist) + 1]]
         /\ hist' = Append(hist, Invoked(hist, p, op, Bytes(heap, key), Bytes(heap, val)))
         /\ UNCHANGED <<heap, m, mu, ctx, sres>>
    ELSE /\ pc' = [pc EXCEPT ![p] = ReturnPoint(entry)]
         /\ fr' = [fr EXCEPT ![p] = [@ EXCEPT !.entry = entry, !.op = op, !.key = key,
                                               !.val = val, !.got = NoGot, !.h = 0]]
         /\ sres' = [sres EXCEPT ![p] = [op |-> op, value |-> NilSlice, err |-> e]]
         /\ UNCHANGED <<heap, m, mu, ctx, hist>>

\* An Unlock that leaves the mutex with its holder
MutexStaysHeld(holder) == holder

\* sync.Mutex: Unlock leaves the mutex with no holder
MutexUnlock(holder) == 0

\* The deferred e.mu.Unlock(), the engine's return and Storage's return
EngineUnlock(p) ==
    /\ pc[p] = "unlock"
    /\ mu' = MutexUnlock(mu)
    /\ LET r == StorageReturn(fr[p].op, fr[p].got) IN
        /\ sres' = [sres EXCEPT ![p] = r]
        /\ hist' = Returned(hist, fr[p].h, <<r.err, Bytes(heap, r.value)>>)
    /\ pc' = [pc EXCEPT ![p] = ReturnPoint(fr[p].entry)]
    /\ UNCHANGED <<heap, m, ctx, fr, xres, eff, calls, maxLen, cliVars, parsed>>

----------------------------------------------------------------------------
(* Compute: the parser.  A query holds its key and value as the ranges of   *)
(* the raw input that bytes.Fields returned: sub-slices, not copies.        *)

ErrInvalidLen == Sentinel("invalid len")

ErrEmptyQuery == Sentinel("empty query")

ErrUnknownCommand == Sentinel("unknown command")

ErrInvalidArguments == Sentinel("invalid arguments")

\* The %q verb on a token of printable characters: the token between double quotes
Quote(t) == <<34>> \o t \o <<34>>

\* fmt.Errorf("%w: ...", e, ...): the message grows, the chain keeps e
Wrapf(e, text) == [msg |-> e.msg \o text, is |-> e.is]

\* fmt.Errorf("...: %v", e): the message of e is kept, its chain is not
Textf(prefix, e) == [msg |-> <<prefix>> \o e.msg, is |-> {}]

upperCommandSet == <<83, 69, 84>>

upperCommandGet == <<71, 69, 84>>

upperCommandDel == <<68, 69, 76>>

\* utf8.DecodeRune at byte i of b, for the encodings of one and two bytes (the
\* inputs hold no byte above 0xDF): the rune and its width; a byte that starts
\* no encoding is RuneError, U+FFFD, of width 1
DecodeRune(b, i) ==
    IF b[i] < 128 THEN [r |-> b[i], w |-> 1]
    ELSE IF b[i] \in 194..223 /\ i < Len(b) /\ b[i + 1] \in 128..191
    THEN [r |-> (b[i] - 192) * 64 + (b[i + 1] - 128), w |-> 2]
    ELSE [r |-> 65533, w |-> 1]

\* unicode.IsSpace up to U+00FF: \t \n \v \f \r, space, U+0085 and U+00A0
IsSpace(r) == r \in {9, 10, 11, 12, 13, 32, 133, 160}

\* bytes.ToUpper(f[i..]): ASCII letters, and the one other rune below U+0800
\* whose upper case is a letter of a command name, U+017F (upper case S); an
\* invalid byte comes out as the encoding of U+FFFD
RECURSIVE ToUpperFrom(_, _)
ToUpperFrom(f, i) ==
    IF i > Len(f) THEN <<>>
    ELSE LET d == DecodeRune(f, i) IN
         (CASE d.r \in 97..122 -> <<d.r - 32>>
            [] d.r = 383 -> <<83>>
            [] d.r = 65533 -> <<239, 191, 189>>
            [] OTHER -> SubSeq(f, i, i + d.w - 1)) \o ToUpperFrom(f, i + d.w)

\* A ToUpper that changes nothing
ToUpperIdentity(f) == f

\* bytes.ToUpper
ToUpper(f) == ToUpperFrom(f, 1)

\* Where the field that starts at byte i of b ends: the index of the first
\* separator rune after it, or Len(b) + 1
RECURSIVE FieldEnd(_, _)
FieldEnd(b, i) ==
    IF i > Len(b) THEN i
    ELSE LET d == DecodeRune(b, i) IN
         IF IsSpace(d.r) THEN i ELSE FieldEnd(b, i + d.w)

\* bytes.Fields(b[i..]): the maximal runs of non-separator runes, as ranges
\* [lo, hi) of b
RECURSIVE FieldsFrom(_, _)
FieldsFrom(b, i) ==
    IF i > Len(b) THEN <<>>
    ELSE LET d == DecodeRune(b, i) IN
         IF IsSpace(d.r) THEN FieldsFrom(b, i + d.w)
         ELSE <<[lo |-> i - 1, hi |-> FieldEnd(b, i) - 1]>> \o FieldsFrom(b, FieldEnd(b, i))

Fields(b) == FieldsFrom(b, 1)

NilQuery == [type |-> "nil", key |-> [lo |-> 0, hi |-> 0], val |-> [lo |-> 0, hi |-> 0]]

\* A parseFields without the length ceiling
parseFieldsNoLenCheck(max, b) ==
    IF Len(b) = 0 \/ Len(Fields(b)) = 0 THEN [fields |-> <<>>, err |-> ErrEmptyQuery]
    ELSE [fields |-> Fields(b), err |-> NilErr]

\* A parseFields that splits before it checks the length
parseFieldsSplitFirst(max, b) ==
    LET l == Len(b) IN
    IF l = 0 \/ Len(Fields(b)) = 0 THEN [fields |-> <<>>, err |-> ErrEmptyQuery]
    ELSE IF max < l
    THEN [fields |-> <<>>, err |-> Wrapf(ErrInvalidLen, <<"expected from 0 to", max, "got", l>>)]
    ELSE [fields |-> Fields(b), err |-> NilErr]

\* A parseFields that rejects a command of exactly the maximum length
parseFieldsOffByOne(max, b) ==
    LET l == Len(b) IN
    IF l = 0 THEN [fields |-> <<>>, err |-> ErrEmptyQuery]
    ELSE IF max <= l
    THEN [fields |-> <<>>, err |-> Wrapf(ErrInvalidLen, <<"expected from 0 to", max, "got", l>>)]
    ELSE IF Len(Fields(b)) = 0 THEN [fields |-> <<>>, err |-> ErrEmptyQuery]
    ELSE [fields |-> Fields(b), err |-> NilErr]

\* Compute.parseFields
parseFields(max, b) ==
    LET l == Len(b) IN
    IF l = 0 THEN [fields |-> <<>>, err |-> ErrEmptyQuery]
    ELSE IF max < l
    THEN [fields |-> <<>>, err |-> Wrapf(ErrInvalidLen, <<"expected from 0 to", max, "got", l>>)]
    ELSE IF Len(Fields(b)) = 0 THEN [fields |-> <<>>, err |-> ErrEmptyQuery]
    ELSE [fields |-> Fields(b), err |-> NilErr]

\* The bytes of field f of b
FieldBytes(b, f) == SubSeq(b, f.lo + 1, f.hi)

\* A Parse that does not count the arguments: a missing one is an empty token
ParseNoArityCheck(max, b) ==
    LET pf == parseFields(max, b)
        arg(i) == IF i <= Len(pf.fields) THEN pf.fields[i] ELSE [lo |-> 0, hi |-> 0]
        upperCommand == IF pf.err = NilErr THEN ToUpper(FieldBytes(b, pf.fields[1])) ELSE <<>>
    IN
    CASE pf.err # NilErr -> [q |-> NilQuery, err |-> pf.err]
      [] pf.err = NilErr /\ upperCommand = upperCommandSet ->
            [q |-> [type |-> "SetQuery", key |-> arg(2), val |-> arg(3)], err |-> NilErr]
      [] pf.err = NilErr /\ upperCommand = upperCommandGet ->
            [q |-> [type |-> "GetQuery", key |-> arg(2), val |-> [lo |-> 0, hi |-> 0]], err |-> NilErr]
      [] pf.err = NilErr /\ upperCommand = upperCommandDel ->
            [q |-> [type |-> "DelQuery", key |-> arg(2), val |-> [lo |-> 0, hi |-> 0]], err |-> NilErr]
      [] OTHER -> [q |-> NilQuery, err |-> Wrapf(ErrUnknownCommand, <<Quote(FieldBytes(b, pf.fields[1]))>>)]

\* Compute.Parse
Parse(max, b) ==
    LET pf == parseFields(max, b) IN
    IF pf.err # NilErr THEN [q |-> NilQuery, err |-> pf.err]
    ELSE
    LET fields == pf.fields
        l == Len(fields)
        upperCommand == ToUpper(FieldBytes(b, fields[1]))
    IN
    CASE upperCommand = upperCommandSet ->
            IF l # 3
            THEN [q |-> NilQuery, err |-> Wrapf(ErrInvalidArguments, <<"set expects", 3, "arguments, got", l>>)]
            ELSE [q |-> [type |-> "SetQuery", key |-> fields[2], val |-> fields[3]], err |-> NilErr]
      [] upperCommand = upperCommandGet ->
            IF l # 2
            THEN [q |-> NilQuery, err |-> Wrapf(ErrInvalidArguments, <<"get expects", 2, "arguments, got", l>>)]
            ELSE [q |-> [type |-> "GetQuery", key |-> fields[2], val |-> [lo |-> 0, hi |-> 0]], err |-> NilErr]
      [] upperCommand = upperCommandDel ->
            IF l # 2
            THEN [q |-> NilQuery, err |-> Wrapf(ErrInvalidArguments, <<"del expects", 2, "arguments, got", l>>)]
            ELSE [q |-> [type |-> "DelQuery", key |-> fields[2], val |-> [lo |-> 0, hi |-> 0]], err |-> NilErr]
      [] OTHER -> [q |-> NilQuery, err |-> Wrapf(ErrUnknownCommand, <<Quote(FieldBytes(b, fields[1]))>>)]

\* Compute.Parse has not been called directly
NoParse == [called |-> FALSE, raw |-> <<>>, q |-> NilQuery, err |-> NilErr, of |-> <<>>]

----------------------------------------------------------------------------
(* Database.Exec *)

\* An Exec without the pre-flight check
ExecAlwaysProceeds(e) == TRUE

\* Whether Exec goes on to parse, given ctx.Err() at its pre-flight check
ExecProceeds(e) == e = NilErr

\* An Exec that wraps the context's error as it wraps the others
ExecCtxResultWrapped(e) == [Status |-> "StatusErr", Err |-> Textf("context", e), Data |-> NilSlice]

\* An Exec that reports the context's error with status Err and a nil Err
ExecCtxResultNoErr(e) == [Status |-> "StatusErr", Err |-> NilErr, Data |-> NilSlice]

\* ExecResult{Status: StatusErr, Err: err}, for err the context's error
ExecCtxResult(e) == [Status |-> "StatusErr", Err |-> e, Data |-> NilSlice]

\* Exec's pre-flight check of the context
ExecBegin(p, raw) ==
    /\ pc[p] = "idle"
    /\ calls' = calls + 1
    /\ eff' = [eff EXCEPT ![p] = <<>>]
    /\ LET e == CtxErr(ctx[p]) IN
       IF ExecProceeds(e)
       THEN /\ pc' = [pc EXCEPT ![p] = "parse"]
            /\ fr' = [fr EXCEPT ![p] = [NoFrame EXCEPT !.entry = "exec", !.raw = raw, !.m0 = m]]
            /\ xres' = [xres EXCEPT ![p] = NoXRes]
       ELSE /\ pc' = pc
            /\ fr' = [fr EXCEPT ![p] = [NoFrame EXCEPT !.entry = "exec", !.raw = raw, !.m0 = m]]
            /\ xres' = [xres EXCEPT ![p] = ExecCtxResult(e)]
    /\ UNCHANGED <<heap, m, mu, ctx, sres, hist, maxLen>>

\* A dispatcher that calls Del for a SetQuery and Set for a DelQuery
OpOfSwapped(type) == CASE type = "SetQuery" -> "Del"
                       [] type = "GetQuery" -> "Get"
                       [] type = "DelQuery" -> "Set"
                       [] OTHER -> "none"

\* A dispatcher whose type switch has no case for a DelQuery
OpOfNoDel(type) == CASE type = "SetQuery" -> "Set"
                     [] type = "GetQuery" -> "Get"
                     [] OTHER -> "none"

\* The Storage operation the dispatcher calls for a query type
OpOf(type) == CASE type = "SetQuery" -> "Set"
                [] type = "GetQuery" -> "Get"
                [] type = "DelQuery" -> "Del"
                [] OTHER -> "none"

\* compute.Parse, the type switch, and the call of Storage up to the engine call
ExecParse(p) ==
    /\ pc[p] = "parse"
    /\ LET raw == fr[p].raw
           r == Parse(maxLen, Bytes(heap, raw))
       IN
       IF r.err # NilErr
       THEN /\ xres' = [xres EXCEPT ![p] = [Status |-> "StatusErr", Err |-> Textf("parse query", r.err),
                                            Data |-> NilSlice]]
            /\ pc' = [pc EXCEPT ![p] = "idle"]
            /\ UNCHANGED <<heap, m, mu, ctx, fr, sres, hist>>
       ELSE IF OpOf(r.q.type) = "none"
       THEN /\ xres' = [xres EXCEPT ![p] = [Status |-> "StatusUnsupported",
                                            Err |-> [msg |-> <<"unknown query type", r.q.type>>, is |-> {}],
                                            Data |-> NilSlice]]
            /\ pc' = [pc EXCEPT ![p] = "idle"]
            /\ UNCHANGED <<heap, m, mu, ctx, fr, sres, hist>>
       ELSE /\ StorageEnter(p, "exec", OpOf(r.q.type), SubSlice(raw, r.q.key.lo, r.q.key.hi),
                            IF r.q.type = "SetQuery" THEN SubSlice(raw, r.q.val.lo, r.q.val.hi) ELSE NilSlice)
            /\ xres' = xres
    /\ UNCHANGED <<eff, calls, maxLen, cliVars, parsed>>

\* An Exec that takes a Del without error for a failed one
ExecResultOfDelInverted(r) ==
    CASE r.op = "Set" ->
            IF r.err # NilErr
            THEN [Status |-> "StatusErr", Err |-> Textf("set query", r.err), Data |-> NilSlice]
            ELSE [Status |-> "StatusOkNoData", Err |-> NilErr, Data |-> NilSlice]
      [] r.op = "Get" ->
            IF r.err # NilErr
            THEN IF "storage: not found" \in r.err.is
                 THEN [Status |-> "StatusNotFound", Err |-> NilErr, Data |-> NilSlice]
                 ELSE [Status |-> "StatusErr", Err |-> Textf("get query", r.err), Data |-> NilSlice]
            ELSE [Status |-> "StatusOK", Err |-> NilErr, Data |-> r.value]
      [] r.op = "Del" ->
            IF r.err = NilErr
            THEN [Status |-> "StatusErr", Err |-> Textf("del query", r.err), Data |-> NilSlice]
            ELSE [Status |-> "StatusOkNoData", Err |-> NilErr, Data |-> NilSlice]

\* An Exec that reports every error of Get, not-found included, as Err
ExecResultOfNotFoundAsErr(r) ==
    CASE r.op = "Set" ->
            IF r.err # NilErr
            THEN [Status |-> "StatusErr", Err |-> Textf("set query", r.err), Data |-> NilSlice]
            ELSE [Status |-> "StatusOkNoData", Err |-> NilErr, Data |-> NilSlice]
      [] r.op = "Get" ->
            IF r.err # NilErr
            THEN [Status |-> "StatusErr", Err |-> Textf("get query", r.err), Data |-> NilSlice]
            ELSE [Status |-> "StatusOK", Err |-> NilErr, Data |-> r.value]
      [] r.op = "Del" ->
            IF r.err # NilErr
            THEN [Status |-> "StatusErr", Err |-> Textf("del query", r.err), Data |-> NilSlice]
            ELSE [Status |-> "StatusOkNoData", Err |-> NilErr, Data |-> NilSlice]

\* The ExecResult for what Storage returned
ExecResultOf(r) ==
    CASE r.op = "Set" ->
            IF r.err # NilErr
            THEN [Status |-> "StatusErr", Err |-> Textf("set query", r.err), Data |-> NilSlice]
            ELSE [Status |-> "StatusOkNoData", Err |-> NilErr, Data |-> NilSlice]
      [] r.op = "Get" ->
            IF r.err # NilErr
            THEN IF "storage: not found" \in r.err.is
                 THEN [Status |-> "StatusNotFound", Err |-> NilErr, Data |-> NilSlice]
                 ELSE [Status |-> "StatusErr", Err |-> Textf("get query", r.err), Data |-> NilSlice]
            ELSE [Status |-> "StatusOK", Err |-> NilErr, Data |-> r.value]
      [] r.op = "Del" ->
            IF r.err # NilErr
            THEN [Status |-> "StatusErr", Err |-> Textf("del query", r.err), Data |-> NilSlice]
            ELSE [Status |-> "StatusOkNoData", Err |-> NilErr, Data |-> NilSlice]

\* Exec returns, with the result of the Storage call mapped to an ExecResult
ExecFinish(p) ==
    /\ pc[p] = "sret"
    /\ xres' = [xres EXCEPT ![p] = ExecResultOf(sres[p])]
    /\ pc' = [pc EXCEPT ![p] = "idle"]
    /\ UNCHANGED <<heap, m, mu, ctx, fr, sres, eff, hist, calls, maxLen, cliVars, parsed>>

----------------------------------------------------------------------------
(* Callers of Storage: the byte strings they pass are slices of their own  *)
(* arrays, here the arrays the heap starts with.                           *)

LitHeap == << <<97>>, <<98>>, <<49>>, <<50>> >>

\* []byte("a"), []byte("b")
LitKeys == {Slice(1, 0, 1), Slice(2, 0, 1)}

\* []byte("1"), []byte("2")
LitVals == {Slice(3, 0, 1), Slice(4, 0, 1)}

\* []byte{}
EmptySlice == Slice(1, 0, 0)

\* A caller calls Storage.Set, Storage.Get or Storage.Del
StorageCall(p, K, V) ==
    /\ pc[p] = "idle"
    /\ calls' = calls + 1
    /\ eff' = [eff EXCEPT ![p] = <<>>]
    /\ UNCHANGED <<xres, maxLen, cliVars, parsed>>
    /\ \E op \in {"Set", "Get", "Del"}, key \in K :
         \E val \in (IF op = "Set" THEN V ELSE {NilSlice}) :
            StorageEnter(p, "storage", op, key, val)

\* The context a caller passes is cancelled, or its deadline passes
Cancel(p) ==
    /\ ctx[p] = "nil"
    /\ \E c \in {"Canceled", "DeadlineExceeded"} : ctx' = [ctx EXCEPT ![p] = c]
    /\ UNCHANGED <<heap, m, mu, pc, fr, sres, xres, eff, hist, calls, maxLen, cliVars, parsed>>

\* No write of App.Run has failed
NoWErr == [ch |-> "none", at |-> "none"]

\* A bufio.Scanner as NewScanner returns it: no buffer, no token, no error
NewScanner == [buf |-> 0, start |-> 0, end |-> 0, err |-> "nil", tok |-> NilSlice]

\* No front end is running
NoCli ==
    /\ input = <<>>
    /\ stdin = <<>>
    /\ stdinOpen = FALSE
    /\ sc = NewScanner
    /\ stdout = <<>>
    /\ stderr = <<>>
    /\ run = "off"
    /\ broken = {}
    /\ werr = NoWErr

InitCommon ==
    /\ m = EmptyMap
    /\ mu = 0
    /\ pc = [p \in Procs |-> "idle"]
    /\ fr = [p \in Procs |-> NoFrame]
    /\ sres = [p \in Procs |-> NoSRes]
    /\ xres = [p \in Procs |-> NoXRes]
    /\ eff = [p \in Procs |-> <<>>]
    /\ hist = <<>>
    /\ calls = 0
    /\ maxLen = maxCommandLen
    /\ NoCli
    /\ parsed = NoParse

----------------------------------------------------------------------------
(* SpecStore: NProcs goroutines share one Storage; each makes one call, with *)
(* a live context, and the calls overlap in every possible way.  The       *)
(* goroutines are numbered in the order in which they make their calls.    *)

InitStore ==
    /\ InitCommon
    /\ heap = LitHeap
    /\ ctx = [p \in Procs |-> "nil"]

\* The next goroutine makes its call
GoCall(p) ==
    /\ p = calls + 1
    /\ StorageCall(p, LitKeys, LitVals)

NextStore ==
    \E p \in Procs :
        \/ GoCall(p)
        \/ EngineLock(p)
        \/ EngineAccess(p)
        \/ EngineUnlock(p)

SpecStore == InitStore /\ [][NextStore]_vars

----------------------------------------------------------------------------
(* SpecSeq: one caller makes up to MaxCalls Storage calls, one after the    *)
(* other, on keys and values that include the empty and the nil slice; its *)
(* context may be cancelled, or its deadline may pass, at any moment.      *)

SeqKeys == LitKeys \cup {EmptySlice}

SeqVals == LitVals \cup {EmptySlice, NilSlice}

SeqCall ==
    /\ calls < MaxCalls
    /\ StorageCall(1, SeqKeys, SeqVals)

InitSeq ==
    /\ InitCommon
    /\ heap = LitHeap
    /\ ctx = [p \in Procs |-> "nil"]

NextSeq ==
    \/ SeqCall
    \/ EngineLock(1)
    \/ EngineAccess(1)
    \/ EngineUnlock(1)
    \/ Cancel(1)

SpecSeq == InitSeq /\ [][NextSeq]_vars

----------------------------------------------------------------------------
(* SpecAlias: as SpecSeq, and between its calls the caller writes to the   *)
(* arrays it owns: the one a value was passed in, which is also the one    *)
(* the slice that Get returned points into.                                *)

\* buf[i] = b, by the caller
CallerWrite(p, bufs, newBytes) ==
    /\ pc[p] = "idle"
    /\ \E b \in bufs, c \in newBytes :
         \E i \in 1..Len(heap[b]) :
            /\ heap[b][i] # c
            /\ heap' = [heap EXCEPT ![b][i] = c]
    /\ UNCHANGED <<m, mu, ctx, pc, fr, sres, xres, eff, hist, calls, maxLen, cliVars, parsed>>

AliasCall ==
    /\ calls < MaxCalls
    /\ StorageCall(1, {Slice(1, 0, 1)}, LitVals)

NextAlias ==
    \/ AliasCall
    \/ EngineLock(1)
    \/ EngineAccess(1)
    \/ EngineUnlock(1)
    \/ CallerWrite(1, {3, 4}, {49, 50, 51})

SpecAlias == InitSeq /\ [][NextAlias]_vars

----------------------------------------------------------------------------
(* SpecExec: one caller makes up to MaxCalls Exec calls, one after the      *)
(* other, each on a raw command; its context may be cancelled, or its      *)
(* deadline may pass, before or at any moment during a call.               *)

\* "SET a 1", "SET a 2", "GET a", "DEL a", "set\ta", "PING a", "GET  a    " (too long), " "
ExecLines == << <<83, 69, 84, 32, 97, 32, 49>>,
                <<83, 69, 84, 32, 97, 32, 50>>,
                <<71, 69, 84, 32, 97>>,
                <<68, 69, 76, 32, 97>>,
                <<115, 101, 116, 9, 97>>,
                <<80, 73, 78, 71, 32, 97>>,
                <<71, 69, 84, 32, 32, 97, 32, 32, 32, 32>>,
                <<32>> >>

ExecHeap == LitHeap \o ExecLines

\* The raw commands callers pass: the lines above, whole, and the empty command
ExecRaws == {Slice(Len(LitHeap) + i, 0, Len(ExecLines[i])) : i \in 1..Len(ExecLines)} \cup {EmptySlice}

\* The maximum length of the Compute under test
TestMaxLen == 8

SeqExec ==
    /\ calls < MaxCalls
    /\ \E raw \in ExecRaws : ExecBegin(1, raw)
    /\ UNCHANGED <<cliVars, parsed>>

InitExec ==
    /\ m = EmptyMap
    /\ mu = 0
    /\ pc = [p \in Procs |-> "idle"]
    /\ fr = [p \in Procs |-> NoFrame]
    /\ sres = [p \in Procs |-> NoSRes]
    /\ xres = [p \in Procs |-> NoXRes]
    /\ eff = [p \in Procs |-> <<>>]
    /\ hist = <<>>
    /\ calls = 0
    /\ maxLen = TestMaxLen
    /\ NoCli
    /\ parsed = NoParse
    /\ heap = ExecHeap
    /\ ctx = [p \in Procs |-> "nil"]

NextExec ==
    \/ SeqExec
    \/ ExecParse(1)
    \/ EngineLock(1)
    \/ EngineAccess(1)
    \/ EngineUnlock(1)
    \/ ExecFinish(1)
    \/ Cancel(1)

SpecExec == InitExec /\ [][NextExec]_vars

----------------------------------------------------------------------------
(* cli.App.Run: a bufio.Scanner over stdin, one Exec per line.  The token   *)
(* that scanner.Bytes() returns is a slice of the scanner's buffer.         *)

\* bufio's startBufSize and MaxScanTokenSize (4096 and 64 * 1024), scaled down
StartBufSize == 16

MaxScanTokenSize == 32

\* The longest input, in lines
MaxLines == 4

resultOK == <<79, 75>>

resultNotFound == <<78, 79, 84, 95, 70, 79, 85, 78, 68>>

Min(a, b) == IF a < b THEN a ELSE b

\* len(s.buf)
Cap(h, b) == IF b = 0 THEN 0 ELSE Len(h[b])

\* h[b][lo:hi]
BufData(h, b, lo, hi) == IF b = 0 THEN <<>> ELSE SubSeq(h[b], lo + 1, hi)

\* copy(dst[off:], src)
WriteAt(dst, off, src) ==
    [i \in 1..Len(dst) |-> IF i > off /\ i <= off + Len(src) THEN src[i - off] ELSE dst[i]]

\* make([]byte, n)
Zeros(n) == [i \in 1..n |-> 0]

\* bytes.IndexByte(data, '\n') + 1; 0 when there is none
IndexNL(data) ==
    IF \E i \in 1..Len(data) : data[i] = 10
    THEN CHOOSE i \in 1..Len(data) : data[i] = 10 /\ \A j \in 1..(i - 1) : data[j] # 10
    ELSE 0

\* dropCR(data[0:n]): its length
DropCR(data, n) == IF n > 0 /\ data[n] = 13 THEN n - 1 ELSE n

\* bufio.ScanLines: how far to advance, whether there is a token, its length
ScanLines(data, atEOF) ==
    IF atEOF /\ Len(data) = 0 THEN [advance |-> 0, some |-> FALSE, len |-> 0]
    ELSE IF IndexNL(data) > 0
    THEN [advance |-> IndexNL(data), some |-> TRUE, len |-> DropCR(data, IndexNL(data) - 1)]
    ELSE IF atEOF THEN [advance |-> Len(data), some |-> TRUE, len |-> DropCR(data, Len(data))]
    ELSE [advance |-> 0, some |-> FALSE, len |-> 0]

\* How many bytes a Read into a buffer with space bytes left may return: all
\* that is there (a file, a pipe), or one line (a terminal)
ReadSizes(in, space) ==
    {Min(Len(in), space)} \cup {Min(IF IndexNL(in) > 0 THEN IndexNL(in) ELSE Len(in), space)}

\* scanner.Scan() returns: true with the next line as the token, or false at
\* the end of the input
ScanToken ==
    /\ run = "scan"
    /\ sc.end > sc.start \/ sc.err # "nil"
    /\ LET r == ScanLines(BufData(heap, sc.buf, sc.start, sc.end), sc.err # "nil") IN
       IF r.some
       THEN /\ sc' = [sc EXCEPT !.start = @ + r.advance, !.tok = Slice(sc.buf, sc.start, r.len)]
            /\ run' = "exec"
       ELSE /\ sc.err # "nil"
            /\ sc' = [sc EXCEPT !.start = 0, !.end = 0]
            /\ run' = "done"
    /\ UNCHANGED <<heap, m, mu, ctx, pc, fr, sres, xres, eff, hist, calls, maxLen, input, stdin, stdinOpen, stdout, stderr, broken, werr, parsed>>

\* scanner.Scan() has no whole line: it moves the data to the front of the
\* buffer when the buffer is full or more than half consumed, takes a larger
\* buffer when it is still full, and reads; the Read returns what has arrived,
\* or the end of the input once stdin is closed, and until then it blocks.  A
\* Read of a broken stdin may fail, with or without bytes: the scanner keeps
\* the bytes and the error
ScanFill ==
    /\ run = "scan"
    /\ sc.err = "nil"
    /\ ~(sc.end > sc.start /\ ScanLines(BufData(heap, sc.buf, sc.start, sc.end), FALSE).some)
    /\ LET cap0 == Cap(heap, sc.buf)
           shift == sc.start > 0 /\ (sc.end = cap0 \/ sc.start > cap0 \div 2)
           h1 == IF shift
                 THEN [heap EXCEPT ![sc.buf] = WriteAt(@, 0, SubSeq(@, sc.start + 1, sc.end))]
                 ELSE heap
           start1 == IF shift THEN 0 ELSE sc.start
           end1 == IF shift THEN sc.end - sc.start ELSE sc.end
       IN
       IF end1 = cap0 /\ cap0 >= MaxScanTokenSize
       THEN /\ heap' = h1
            /\ sc' = [sc EXCEPT !.start = start1, !.end = end1, !.err = "ErrTooLong"]
            /\ run' = "done"
            /\ stdin' = stdin
       ELSE LET grow == end1 = cap0
                newSize == IF cap0 = 0 THEN StartBufSize ELSE Min(2 * cap0, MaxScanTokenSize)
                h2 == IF grow
                      THEN Append(h1, WriteAt(Zeros(newSize), 0, BufData(h1, sc.buf, start1, end1)))
                      ELSE h1
                buf2 == IF grow THEN Len(h1) + 1 ELSE sc.buf
                start2 == IF grow THEN 0 ELSE start1
                end2 == IF grow THEN end1 - start1 ELSE end1
            IN
            /\ run' = run
            /\ \/ IF stdin = <<>>
                  THEN /\ ~stdinOpen
                       /\ heap' = h2
                       /\ sc' = [sc EXCEPT !.buf = buf2, !.start = start2, !.end = end2, !.err = "EOF"]
                       /\ stdin' = stdin
                  ELSE \E n \in ReadSizes(stdin, Len(h2[buf2]) - end2) :
                          /\ heap' = [h2 EXCEPT ![buf2] = WriteAt(@, end2, SubSeq(stdin, 1, n))]
                          /\ sc' = [sc EXCEPT !.buf = buf2, !.start = start2, !.end = end2 + n]
                          /\ stdin' = SubSeq(stdin, n + 1, Len(stdin))
               \/ /\ "stdin" \in broken
                  /\ \E n \in 0..Min(Len(stdin), Len(h2[buf2]) - end2) :
                        /\ heap' = [h2 EXCEPT ![buf2] = WriteAt(@, end2, SubSeq(stdin, 1, n))]
                        /\ sc' = [sc EXCEPT !.buf = buf2, !.start = start2, !.end = end2 + n,
                                            !.err = "ReadErr"]
                        /\ stdin' = SubSeq(stdin, n + 1, Len(stdin))
    /\ UNCHANGED <<m, mu, ctx, pc, fr, sres, xres, eff, hist, calls, maxLen, input, stdinOpen, stdout, stderr, broken, werr, parsed>>

\* query := scanner.Bytes(); r := cli.qe.Exec(ctx, query)
CliExec ==
    /\ run = "exec"
    /\ ExecBegin(1, sc.tok)
    /\ run' = "wait"
    /\ UNCHANGED <<input, stdin, stdinOpen, sc, stdout, stderr, broken, werr, parsed>>

\* A Run without the switch on the status: it writes r.Data for every result
OutputOfDataOnly(h, r) == Bytes(h, r.Data)

\* The line Run writes to stdout for a result without an error
OutputOf(h, r) ==
    CASE r.Status = "StatusOkNoData" -> resultOK
      [] r.Status = "StatusNotFound" -> resultNotFound
      [] OTHER -> Bytes(h, r.Data)

\* How the two writes of a line to channel ch can end: both succeed, the
\* write of the data fails, or the write of the newline fails
WriteOutcomes(ch) == IF ch \in broken THEN {"ok", "data", "newline"} ELSE {"ok"}

\* Exec has returned: Run writes the error to stderr, or the result to stdout,
\* and then the newline; it returns when one of the two writes fails.  A
\* line whose newline could not be written is the last of its channel
CliWrite ==
    /\ run = "wait"
    /\ pc[1] = "idle"
    /\ LET ch == IF xres[1].Err # NilErr THEN "stderr" ELSE "stdout"
           line == IF xres[1].Err # NilErr THEN xres[1].Err.msg ELSE OutputOf(heap, xres[1])
       IN
       \E o \in WriteOutcomes(ch) :
          /\ stderr' = IF ch = "stderr" /\ o # "data" THEN Append(stderr, line) ELSE stderr
          /\ stdout' = IF ch = "stdout" /\ o # "data" THEN Append(stdout, line) ELSE stdout
          /\ werr' = IF o = "ok" THEN werr ELSE [ch |-> ch, at |-> o]
          /\ run' = IF o = "ok" THEN "scan" ELSE "done"
    /\ UNCHANGED <<heap, m, mu, ctx, pc, fr, sres, xres, eff, hist, calls, maxLen, input, stdin, stdinOpen, sc, broken, parsed>>

\* bufio.ErrTooLong
ErrTooLong == Sentinel("bufio.Scanner: token too long")

\* The error a failed Read or Write of channel ch returns
IoErr(ch) == [msg |-> <<"io error", ch>>, is |-> {"io error"}]

\* What Run returns: the error of the write that failed, or, once Scan has
\* returned false, the scanner's error; scanner.Err() is nil at the end of
\* the input
RunResult ==
    IF werr.ch = "stdout" THEN Textf("writing to stdout", IoErr("stdout"))
    ELSE IF werr.ch = "stderr" THEN Textf("writing to stderr", IoErr("stderr"))
    ELSE IF sc.err = "ErrTooLong" THEN Textf("scan", ErrTooLong)
    ELSE IF sc.err = "ReadErr" THEN Textf("scan", IoErr("stdin"))
    ELSE NilErr

----------------------------------------------------------------------------
(* SpecCli: App.Run over an input of up to MaxLines lines, with the real    *)
(* Database (Compute with maxCommandLen, Storage, the in-memory engine)    *)
(* and a live context.                                                     *)

\* "SET a 1", "SET b 2", "GET a", "DEL a", "PING"
CliLines == { <<83, 69, 84, 32, 97, 32, 49>>,
              <<83, 69, 84, 32, 98, 32, 50>>,
              <<71, 69, 84, 32, 97>>,
              <<68, 69, 76, 32, 97>>,
              <<80, 73, 78, 71>> }

\* The lines, each followed by a newline
RECURSIVE Feed(_)
Feed(lines) == IF lines = <<>> THEN <<>> ELSE Head(lines) \o <<10>> \o Feed(Tail(lines))

InitCli ==
    /\ m = EmptyMap
    /\ mu = 0
    /\ pc = [p \in Procs |-> "idle"]
    /\ fr = [p \in Procs |-> NoFrame]
    /\ sres = [p \in Procs |-> NoSRes]
    /\ xres = [p \in Procs |-> NoXRes]
    /\ eff = [p \in Procs |-> <<>>]
    /\ hist = <<>>
    /\ calls = 0
    /\ maxLen = maxCommandLen
    /\ heap = <<>>
    /\ ctx = [p \in Procs |-> "nil"]
    /\ input \in UNION {[1..n -> CliLines] : n \in 1..MaxLines}
    /\ stdin = Feed(input)
    /\ stdinOpen = FALSE
    /\ sc = NewScanner
    /\ stdout = <<>>
    /\ stderr = <<>>
    /\ run = "scan"
    /\ broken = {}
    /\ werr = NoWErr
    /\ parsed = NoParse

NextCli ==
    \/ ScanToken
    \/ ScanFill
    \/ CliExec
    \/ ExecParse(1)
    \/ EngineLock(1)
    \/ EngineAccess(1)
    \/ EngineUnlock(1)
    \/ ExecFinish(1)
    \/ CliWrite

SpecCli == InitCli /\ [][NextCli]_vars

\* The longest input of the fair runs, in lines
FairMaxLines == 3

\* "SET a 1", "GET a", "PING"
FairLines == { <<83, 69, 84, 32, 97, 32, 49>>,
               <<71, 69, 84, 32, 97>>,
               <<80, 73, 78, 71>> }

InitCliFair ==
    /\ m = EmptyMap
    /\ mu = 0
    /\ pc = [p \in Procs |-> "idle"]
    /\ fr = [p \in Procs |-> NoFrame]
    /\ sres = [p \in Procs |-> NoSRes]
    /\ xres = [p \in Procs |-> NoXRes]
    /\ eff = [p \in Procs |-> <<>>]
    /\ hist = <<>>
    /\ calls = 0
    /\ parsed = NoParse
    /\ maxLen = maxCommandLen
    /\ heap = <<>>
    /\ ctx = [p \in Procs |-> "nil"]
    /\ input \in UNION {[1..n -> FairLines] : n \in 1..FairMaxLines}
    /\ stdin = Feed(input)
    /\ stdinOpen = FALSE
    /\ sc = NewScanner
    /\ stdout = <<>>
    /\ stderr = <<>>
    /\ run = "scan"
    /\ broken = {}
    /\ werr = NoWErr

\* The steps of Run and of the Exec it calls, other than the parse
RunStep ==
    \/ ScanToken
    \/ ScanFill
    \/ CliExec
    \/ EngineLock(1)
    \/ EngineAccess(1)
    \/ EngineUnlock(1)
    \/ ExecFinish(1)
    \/ CliWrite

\* WF_vars(ExecParse(1)), with the enabling condition of ExecParse(1), which
\* can be taken whenever the call is at "parse", written out
ParseFair == []<>(pc[1] # "parse") \/ []<><<ExecParse(1)>>_vars

\* Run is one goroutine reading a finite input: it takes every step it can
SpecCliFair == InitCliFair /\ [][NextCli]_vars /\ WF_vars(RunStep) /\ ParseFair

----------------------------------------------------------------------------
(* SpecParse: a caller makes a Compute with a maximum length of 0 to        *)
(* ParseMaxLen and calls Parse on an input put together from a command     *)
(* name, up to three arguments and separators; it then calls Parse on a    *)
(* variant of that input: one letter of the command name in the other      *)
(* case, or one more space or tab at an end or next to a separator.        *)

\* The largest maximum length of the Computes under test
ParseMaxLen == 12

\* "", " "
ParseLeads == {<<>>, <<32>>}

\* "SET", "sEt", "GET", "get", "DEL", "PUT", "\u017fET" (long s), ""
ParseCmds == {<<83, 69, 84>>, <<115, 69, 116>>, <<71, 69, 84>>, <<103, 101, 116>>,
              <<68, 69, 76>>, <<80, 85, 84>>, <<197, 191, 69, 84>>, <<>>}

\* " ", "\t", "\u00a0" (no-break space)
ParseSeps == {<<32>>, <<9>>, <<194, 160>>}

\* "", "a", "ab"
ParseKeys == {<<>>, <<97>>, <<97, 98>>}

\* "", "1", "get"
ParseVals == {<<>>, <<49>>, <<103, 101, 116>>}

\* "", "x"
ParseExtras == {<<>>, <<120>>}

\* "", "\t"
ParseTrails == {<<>>, <<9>>}

\* An argument with the separator before it; nothing for no argument
WithSep(sep, arg) == IF arg = <<>> THEN <<>> ELSE sep \o arg

\* The inputs
ParseInputs ==
    {lead \o cmd \o WithSep(sep, key) \o WithSep(sep2, val) \o WithSep(<<32>>, extra) \o trail :
        lead \in ParseLeads, cmd \in ParseCmds, sep \in ParseSeps, key \in ParseKeys,
        sep2 \in {<<32>>, <<32, 32>>}, val \in ParseVals, extra \in ParseExtras, trail \in ParseTrails}

\* b with byte c put in after its first j bytes
InsertAt(b, j, c) == SubSeq(b, 1, j) \o <<c>> \o SubSeq(b, j + 1, Len(b))

\* The other case of an ASCII letter
SwapCase(c) == IF c \in 65..90 THEN c + 32 ELSE IF c \in 97..122 THEN c - 32 ELSE c

\* The variants of input b: a letter of its first token in the other case; a
\* space or a tab added in front, at the end, or next to a space or a tab
Variants(b) ==
    {[b EXCEPT ![i] = SwapCase(@)] :
        i \in {x \in 1..Len(b) : /\ Fields(b) # <<>>
                                 /\ x > Fields(b)[1].lo /\ x <= Fields(b)[1].hi
                                 /\ SwapCase(b[x]) # b[x]}}
    \cup {InsertAt(b, j, c) :
             j \in {x \in 0..Len(b) : \/ x = 0 \/ x = Len(b)
                                    \/ b[x] \in {9, 32} \/ b[x + 1] \in {9, 32}},
             c \in {9, 32}}

\* q, err := c.Parse(raw)
ParseCall ==
    /\ calls = 0
    /\ calls' = 1
    /\ \E raw \in ParseInputs :
          LET r == Parse(maxLen, raw) IN
          parsed' = [called |-> TRUE, raw |-> raw, q |-> r.q, err |-> r.err, of |-> <<>>]
    /\ UNCHANGED <<heap, m, mu, ctx, pc, fr, sres, xres, eff, hist, maxLen, cliVars>>

\* q, err := c.Parse(variant), for a variant of the input of the first call
ParseVariant ==
    /\ calls = 1
    /\ calls' = 2
    /\ \E raw \in Variants(parsed.raw) :
          LET r == Parse(maxLen, raw) IN
          parsed' = [called |-> TRUE, raw |-> raw, q |-> r.q, err |-> r.err,
                     of |-> <<[raw |-> parsed.raw, q |-> parsed.q, err |-> parsed.err]>>]
    /\ UNCHANGED <<heap, m, mu, ctx, pc, fr, sres, xres, eff, hist, maxLen, cliVars>>

InitParse ==
    /\ m = EmptyMap
    /\ mu = 0
    /\ pc = [p \in Procs |-> "idle"]
    /\ fr = [p \in Procs |-> NoFrame]
    /\ sres = [p \in Procs |-> NoSRes]
    /\ xres = [p \in Procs |-> NoXRes]
    /\ eff = [p \in Procs |-> <<>>]
    /\ hist = <<>>
    /\ calls = 0
    /\ maxLen \in 0..ParseMaxLen
    /\ NoCli
    /\ parsed = NoParse
    /\ heap = <<>>
    /\ ctx = [p \in Procs |-> "nil"]

NextParse ==
    \/ ParseCall
    \/ ParseVariant

SpecParse == InitParse /\ [][NextParse]_vars

----------------------------------------------------------------------------
(* The reference the concurrent claims compare with: a plain map from key  *)
(* bytes to value bytes, on which the calls of a history run one at a time. *)

\* The plain map after call c
SeqApply(mm, c) ==
    CASE c.op = "Set" -> [x \in (DOMAIN mm) \cup {c.key} |-> IF x = c.key THEN c.arg ELSE mm[x]]
      [] c.op = "Del" -> [x \in (DOMAIN mm) \ {c.key} |-> mm[x]]
      [] OTHER -> mm

\* What call c returns on the plain map: (error, value)
SeqOut(mm, c) ==
    IF c.op = "Get"
    THEN IF c.key \in DOMAIN mm THEN <<NilErr, mm[c.key]>> ELSE <<ErrNotFound, <<>>>>
    ELSE <<NilErr, <<>>>>

\* Whether the calls of h with indexes in rem can be run one at a time from
\* map mm, each call that returned giving the outcome it gave in h, and no call
\* run before one that had returned before it was invoked.  Calls that have
\* not returned may be run or left out.
RECURSIVE Lin(_, _, _)
Lin(h, rem, mm) ==
    \/ \A i \in rem : h[i].ret = 0
    \/ \E i \in rem :
          /\ \A j \in rem : ~(h[j].ret # 0 /\ h[j].ret < h[i].inv)
          /\ h[i].ret # 0 => h[i].out = SeqOut(mm, h[i])
          /\ Lin(h, rem \ {i}, SeqApply(mm, h[i]))

Linearizable(h) == Lin(h, 1..Len(h), [k \in {} |-> <<>>])

\* The engine map read through the heap: key -> the bytes its slice holds now
Contents == [k \in DOMAIN m |-> Bytes(heap, m[k])]

\* The calls of the history that have returned
Done == {i \in 1..Len(hist) : hist[i].ret # 0}

\* Calls i and j overlapped: neither returned before the other was invoked
Overlap(i, j) ==
    /\ i # j
    /\ ~(hist[i].ret # 0 /\ hist[i].ret < hist[j].inv)
    /\ ~(hist[j].ret # 0 /\ hist[j].ret < hist[i].inv)

\* The writes (Set, Del) on key k that have been serialized
Writes(k) == {i \in 1..Len(hist) : hist[i].key = k /\ hist[i].op \in {"Set", "Del"} /\ hist[i].ser # 0}

Quiescent == \A p \in Procs : pc[p] = "idle"

KeyBytes == {Bytes(LitHeap, k) : k \in LitKeys}

(* C2: under any interleaving of concurrent Set, Get and Del calls, every Get
   that returned gave either not-found or the value of a Set made on its key,
   and once every call has returned each key holds the value of the Set on it
   that was serialized last, or is absent when a Del on it was serialized
   last or nothing was written to it. *)
C2_NoLostUpdateNoTornRead ==
    /\ \A i \in Done :
          hist[i].op = "Get" =>
             \/ hist[i].out = <<ErrNotFound, <<>>>>
             \/ \E j \in 1..Len(hist) :
                   /\ hist[j].op = "Set" /\ hist[j].key = hist[i].key
                   /\ hist[j].inv < hist[i].ret
                   /\ hist[i].out = <<NilErr, hist[j].arg>>
    /\ Quiescent =>
          \A k \in KeyBytes :
             IF Writes(k) = {}
             THEN k \notin DOMAIN Contents
             ELSE LET w == CHOOSE i \in Writes(k) : \A j \in Writes(k) : hist[j].ser <= hist[i].ser IN
                  IF hist[w].op = "Set"
                  THEN k \in DOMAIN Contents /\ Contents[k] = hist[w].arg
                  ELSE k \notin DOMAIN Contents

\* Three calls on one key overlapped pairwise, a Set, a Del and a Get among
\* them, and all have returned
C2_Witness ==
    /\ Quiescent
    /\ \E i, j, g \in Done :
          /\ hist[i].op = "Set" /\ hist[j].op = "Del" /\ hist[g].op = "Get"
          /\ hist[i].key = hist[j].key /\ hist[g].key = hist[i].key
          /\ Overlap(i, j) /\ Overlap(i, g) /\ Overlap(j, g)
          /\ hist[g].out = <<NilErr, hist[i].arg>>

(* C3: the engine is linearizable: every history of Set/Get/Del calls is
   equivalent to the same calls run one at a time on a plain map in an order
   that respects real time; so a Get invoked after a Set on its key returned,
   with no other write on that key, returns the value set. *)
C3_Linearizable ==
    /\ Linearizable(hist)
    /\ \A g \in Done, s \in Done :
          ( /\ hist[g].op = "Get" /\ hist[s].op = "Set" /\ hist[s].key = hist[g].key
            /\ hist[s].ret < hist[g].inv
            /\ \A j \in 1..Len(hist) :
                  (j # s /\ hist[j].key = hist[g].key) => hist[j].op = "Get" )
          => hist[g].out = <<NilErr, hist[s].arg>>

\* Two Sets of different values on one key overlapped, and a Get invoked
\* after one of them returned and while the other was running gave a value
C3_Witness ==
    \E i, j, g \in Done :
       /\ hist[i].op = "Set" /\ hist[j].op = "Set" /\ hist[g].op = "Get"
       /\ hist[i].key = hist[j].key /\ hist[g].key = hist[i].key
       /\ hist[i].arg # hist[j].arg
       /\ Overlap(i, j) /\ Overlap(j, g)
       /\ hist[i].ret < hist[g].inv
       /\ hist[g].out = <<NilErr, hist[j].arg>>

(* C4: when callers Set pairwise distinct keys concurrently, every Set
   succeeds, and a Get of one of these keys invoked after the Sets returned
   returns exactly the value its writer set, with no error. *)
C4_DisjointKeys ==
    \A g \in Done :
       LET S == {s \in 1..Len(hist) : hist[s].op = "Set"}
           W == {s \in 1..Len(hist) : hist[s].op \in {"Set", "Del"}} IN
       ( /\ hist[g].op = "Get"
         /\ W = S
         /\ \A s, t \in S : s # t => hist[s].key # hist[t].key
         /\ \A s \in S : hist[s].ret # 0 /\ hist[s].ret < hist[g].inv /\ hist[s].out = <<NilErr, <<>>>>
         /\ \E s \in S : hist[s].key = hist[g].key )
       => \E s \in S : hist[s].key = hist[g].key /\ hist[g].out = <<NilErr, hist[s].arg>>

\* Two Sets on different keys with different values overlapped, and a Get
\* invoked after both had returned gave its key's value
C4_Witness ==
    \E s, t, g \in Done :
       /\ hist[s].op = "Set" /\ hist[t].op = "Set" /\ hist[g].op = "Get"
       /\ hist[s].key # hist[t].key /\ hist[s].arg # hist[t].arg
       /\ Overlap(s, t)
       /\ hist[s].ret < hist[g].inv /\ hist[t].ret < hist[g].inv
       /\ hist[g].key = hist[s].key
       /\ hist[g].out = <<NilErr, hist[s].arg>>

----------------------------------------------------------------------------
(* Claims on one caller's sequence of Storage calls *)

\* The writes on key k serialized before call g was
WritesBefore(k, g) == {i \in Writes(k) : hist[i].ser < hist[g].ser}

\* The last of a non-empty set of serialized calls
LastOf(W) == CHOOSE i \in W : \A j \in W : hist[j].ser <= hist[i].ser

\* A live-context Get of key k that has returned, as the caller sees it
AllKeyBytes == KeyBytes \cup {<<>>}

(* C7: for all keys and values, the empty ones included, Set(K,V) followed by
   Get(K) with a live context and no write to K in between returns V byte for
   byte with a nil error; an empty value is found, not reported as absent. *)
C7_SetGetRoundTrip ==
    \A g \in Done, s \in Done :
       ( /\ hist[g].op = "Get" /\ hist[s].op = "Set" /\ hist[s].key = hist[g].key
         /\ hist[s].ret < hist[g].inv
         /\ \A w \in Writes(hist[g].key) : ~(hist[s].inv < hist[w].inv /\ hist[w].inv < hist[g].inv) )
       => hist[g].out = <<NilErr, hist[s].arg>>

\* The empty value was set under the empty key and the next call, a Get of
\* the empty key, returned: empty value, nil error
C7_Witness ==
    /\ Len(hist) >= 2
    /\ hist[1].op = "Set" /\ hist[1].key = <<>> /\ hist[1].arg = <<>>
    /\ hist[2].op = "Get" /\ hist[2].key = <<>> /\ hist[2].ret # 0
    /\ hist[2].out = <<NilErr, <<>>>>
    /\ sres[1].op = "Get" /\ sres[1].err = NilErr

(* C8: Set is an upsert and the last write wins: when the last write on key
   K is Set(K,V2), whatever Sets came before it, the map holds K with V2 once
   the Set has returned, and every later Get(K) returns V2. *)
C8_LastWriteWins ==
    \A k \in AllKeyBytes :
       Writes(k) # {} =>
          LET w == LastOf(Writes(k)) IN
          (hist[w].op = "Set" /\ hist[w].ret # 0) =>
             /\ k \in DOMAIN Contents
             /\ Contents[k] = hist[w].arg
             /\ \A g \in Done :
                   (hist[g].op = "Get" /\ hist[g].key = k /\ hist[g].ser > hist[w].ser)
                   => hist[g].out = <<NilErr, hist[w].arg>>

\* Set(K,V1), Set(K,V2) with V1 # V2, then Get(K) returned V2
C8_Witness ==
    /\ Len(hist) >= 3
    /\ hist[1].op = "Set" /\ hist[2].op = "Set" /\ hist[3].op = "Get"
    /\ hist[1].key = hist[2].key /\ hist[3].key = hist[1].key
    /\ hist[1].arg # hist[2].arg /\ hist[1].arg # <<>>
    /\ hist[3].ret # 0 /\ hist[3].out = <<NilErr, hist[2].arg>>

\* What C9 says of every state
C9_State ==
    /\ \A p \in Procs :
          /\ (sres[p].op = "Del" /\ sres[p].err # NilErr) => ctx[p] # "nil"
          /\ (sres[p].op = "Get" /\ sres[p].err # NilErr) => sres[p].value = NilSlice
    /\ \A g \in Done :
          hist[g].op = "Get" =>
             LET W == WritesBefore(hist[g].key, g) IN
             (W = {} \/ hist[LastOf(W)].op = "Del") => hist[g].out = <<ErrNotFound, <<>>>>

\* What C9 says of every step: a Del of an absent key changes nothing in the map
C9_Step ==
    \A p \in Procs :
       (pc[p] = "crit" /\ pc'[p] = "unlock" /\ fr[p].op = "Del"
          /\ Bytes(heap, fr[p].key) \notin DOMAIN m)
       => m' = m

(* C9: Del with a live context never returns an error, whether or not the key
   is present; a Get of a key whose last write was a Del, or that was never
   set, returns a nil value with ErrNotFound; a Del of an absent key leaves
   the map unchanged. *)
C9_DelIdempotent == [](C9_State) /\ [][C9_Step]_vars

\* Set(K), Del(K), then Get(K) returned ErrNotFound with a nil value
C9_Witness ==
    /\ Len(hist) >= 3
    /\ hist[1].op = "Set" /\ hist[2].op = "Del" /\ hist[3].op = "Get"
    /\ hist[1].key = hist[2].key /\ hist[3].key = hist[1].key
    /\ hist[3].ret # 0 /\ hist[3].out = <<ErrNotFound, <<>>>>
    /\ sres[1] = [op |-> "Get", value |-> NilSlice, err |-> ErrNotFound]

(* C10: the value of a key changes only through Set or Del on that key: a
   Get(K) whose last preceding write on K is Set(K,V) returns the bytes V held
   when it was set, whatever the caller has since written to the array V was
   passed in or to the slice an earlier Get(K) returned. *)
C10_ValueOnlyThroughSetDel ==
    \A g \in Done :
       hist[g].op = "Get" =>
          LET W == WritesBefore(hist[g].key, g) IN
          (W # {} /\ hist[LastOf(W)].op = "Set") => hist[g].out = <<NilErr, hist[LastOf(W)].arg>>

\* The step is the start of a Storage call by p
StorageCalled(p) == pc[p] = "idle" /\ calls' = calls + 1 /\ fr'[p].entry = "storage"

(* C11: Storage.Set, Get and Del called with a context that is already
   cancelled or past its deadline return that context's error, Canceled or
   DeadlineExceeded, without calling the engine; Get returns a nil value with
   it, also when the key is present; the engine map is unchanged. *)
C11_CancelledStorageCallReturnsCtxErr ==
    [][ \A p \in Procs :
          (StorageCalled(p) /\ ctx[p] # "nil")
          => /\ pc'[p] = "idle"
             /\ sres'[p] = [op |-> fr'[p].op, value |-> NilSlice, err |-> CtxErr(ctx[p])]
             /\ sres'[p].err \in {Canceled, DeadlineExceeded}
             /\ m' = m /\ mu' = mu /\ heap' = heap
             /\ hist' = hist /\ eff'[p] = <<>> ]_vars

\* With key "a" set, the deadline passed and the caller then called Get("a"):
\* it returned a nil value and DeadlineExceeded, and no engine call was made
C11_Witness ==
    /\ pc[1] = "idle" /\ fr[1].entry = "storage"
    /\ fr[1].op = "Get" /\ fr[1].h = 0
    /\ Bytes(heap, fr[1].key) = <<97>>
    /\ <<97>> \in DOMAIN m
    /\ ctx[1] = "DeadlineExceeded"
    /\ sres[1] = [op |-> "Get", value |-> NilSlice, err |-> DeadlineExceeded]
    /\ Len(hist) = 1

----------------------------------------------------------------------------
(* Claims on Exec *)

\* The step is the start of an Exec call by p
ExecCalled(p) == pc[p] = "idle" /\ calls' = calls + 1 /\ fr'[p].entry = "exec"

(* C5: an Exec call made with a context that is already cancelled or expired
   returns at once: it does not reach the parser or Storage, performs no
   engine operation and leaves the engine map as it was, whatever the raw
   input. *)
C5_CancelledExecTouchesNothing ==
    [][ \A p \in Procs :
          (ExecCalled(p) /\ ctx[p] # "nil")
          => /\ pc'[p] = "idle"
             /\ m' = m /\ mu' = mu /\ heap' = heap
             /\ sres' = sres /\ hist' = hist /\ eff'[p] = <<>> ]_vars

\* With "SET a 1" stored, Exec was called on "SET a 2" with a cancelled
\* context and has returned the context's error
C5_Witness ==
    /\ pc[1] = "idle" /\ fr[1].entry = "exec"
    /\ Bytes(heap, fr[1].raw) = ExecLines[2]
    /\ ctx[1] = "Canceled"
    /\ xres[1] = [Status |-> "StatusErr", Err |-> Canceled, Data |-> NilSlice]
    /\ <<97>> \in DOMAIN m /\ Contents[<<97>>] = <<49>>

(* C12: Exec called with an already cancelled or expired context returns
   status Err whose Err is the context's own error, Canceled or
   DeadlineExceeded, and no data, whatever the raw input: the check comes
   before every parse error, those of the empty and the over-long input
   included. *)
C12_CancelledExecReturnsCtxErr ==
    [][ \A p \in Procs :
          (ExecCalled(p) /\ ctx[p] # "nil")
          => /\ xres'[p].Status = "StatusErr"
             /\ xres'[p].Err = CtxErr(ctx[p])
             /\ xres'[p].Err \in {Canceled, DeadlineExceeded}
             /\ xres'[p].Data = NilSlice ]_vars

\* Exec was called on a command longer than the maximum after the deadline
\* had passed, and returned DeadlineExceeded itself, not a parse error
C12_Witness ==
    /\ pc[1] = "idle" /\ fr[1].entry = "exec"
    /\ Len(Bytes(heap, fr[1].raw)) > maxLen
    /\ ctx[1] = "DeadlineExceeded"
    /\ xres[1] = [Status |-> "StatusErr", Err |-> DeadlineExceeded, Data |-> NilSlice]

\* The Exec call of p has returned
ExecReturned(p) == pc[p] = "idle" /\ fr[p].entry = "exec"

\* The key and value tokens of a raw command whose command name is at bytes
\* 1..3 and whose arguments are single bytes: "SET k v", "DEL k"
ArgsOf(b) == [key |-> <<b[5]>>, val |-> IF Len(b) >= 7 THEN <<b[7]>> ELSE <<>>]

(* C6: every Exec call performs at most one engine operation, and its status
   agrees with its effect: when it returns Err it has performed none and the
   engine map is as it was; when it returns OkNoData it has performed exactly
   the one Set or Del of its command, and the map differs from what it was in
   that key alone.  Cancelling the context during the call changes none of
   this. *)
C6_OneOperationOrNone ==
    \A p \in Procs :
       /\ Len(eff[p]) <= 1
       /\ ExecReturned(p) =>
            LET b == Bytes(heap, fr[p].raw)
                m0 == fr[p].m0
            IN
            /\ xres[p].Status = "StatusErr" => (eff[p] = <<>> /\ m = m0)
            /\ xres[p].Status = "StatusOkNoData" =>
                  /\ Len(eff[p]) = 1
                  /\ eff[p][1].key = ArgsOf(b).key
                  /\ \A k \in (DOMAIN m \cup DOMAIN m0) \ {ArgsOf(b).key} :
                        k \in DOMAIN m /\ k \in DOMAIN m0 /\ m[k] = m0[k]
                  /\ \/ /\ ToUpper(SubSeq(b, 1, 3)) = upperCommandSet
                        /\ eff[p][1].op = "Set"
                        /\ ArgsOf(b).key \in DOMAIN m
                        /\ Bytes(heap, m[ArgsOf(b).key]) = ArgsOf(b).val
                     \/ /\ ToUpper(SubSeq(b, 1, 3)) = upperCommandDel
                        /\ eff[p][1].op = "Del"
                        /\ ArgsOf(b).key \notin DOMAIN m

\* With "SET a 1" stored, the context was cancelled during an Exec of "DEL a",
\* after its pre-flight check: Storage refused, Exec returned Err, and the key
\* is still there
C6_Witness ==
    /\ ExecReturned(1)
    /\ Bytes(heap, fr[1].raw) = ExecLines[4]
    /\ xres[1].Status = "StatusErr"
    /\ xres[1].Err = Textf("del query", Canceled)
    /\ eff[1] = <<>>
    /\ <<97>> \in DOMAIN m

\* The Exec call of p has returned, and it had called Storage operation op
ExecReturnedFrom(p, op) == ExecReturned(p) /\ fr[p].op = op

(* C13: for a parsed Get query Exec maps what Storage returned three ways:
   the not-found error gives status NotFound with a nil Err and no data, any
   other error gives status Err, success gives status Ok with exactly the
   slice Storage returned.  An absent key is never reported as Err. *)
C13_GetOutcomeMapping ==
    \A p \in Procs :
       ExecReturnedFrom(p, "Get") =>
          LET k == Bytes(heap, fr[p].key) IN
          /\ sres[p].op = "Get"
          /\ sres[p].err = NilErr =>
                /\ xres[p] = [Status |-> "StatusOK", Err |-> NilErr, Data |-> sres[p].value]
                /\ k \in DOMAIN m /\ xres[p].Data = m[k]
          /\ sres[p].err = ErrNotFound =>
                xres[p] = [Status |-> "StatusNotFound", Err |-> NilErr, Data |-> NilSlice]
          /\ sres[p].err \notin {NilErr, ErrNotFound} =>
                /\ xres[p].Status = "StatusErr"
                /\ xres[p].Err # NilErr
                /\ xres[p].Data = NilSlice
          /\ (Len(eff[p]) = 1 /\ k \notin DOMAIN m) => xres[p].Status = "StatusNotFound"
          /\ xres[p].Status = "StatusErr" => eff[p] = <<>>

\* "SET a 1", "DEL a", then "GET a" returned NotFound with no error and no data
C13_Witness ==
    /\ calls = 3
    /\ ExecReturnedFrom(1, "Get")
    /\ Bytes(heap, fr[1].raw) = ExecLines[3]
    /\ Len(hist) = 3 /\ hist[1].op = "Set" /\ hist[2].op = "Del"
    /\ eff[1] = <<[op |-> "Get", key |-> <<97>>, val |-> NilSlice]>>
    /\ xres[1] = [Status |-> "StatusNotFound", Err |-> NilErr, Data |-> NilSlice]

(* C14: for a parsed Set or Del query Exec calls Storage.Set or Storage.Del
   with exactly the key (and, for Set, the value) token of the command, and
   returns OkNoData with a nil Err and no data when Storage succeeds and
   status Err when it fails; a DEL of an absent key is reported as
   OkNoData. *)
C14_SetDelOutcome ==
    \A p \in Procs :
       LET b == Bytes(heap, fr[p].raw) IN
       ( /\ ExecReturned(p)
         /\ fr[p].op # "none"
         /\ ToUpper(SubSeq(b, 1, 3)) \in {upperCommandSet, upperCommandDel} )
       => LET isSet == ToUpper(SubSeq(b, 1, 3)) = upperCommandSet IN
          /\ fr[p].op = (IF isSet THEN "Set" ELSE "Del")
          /\ sres[p].op = fr[p].op
          /\ fr[p].key = SubSlice(fr[p].raw, 4, 5)
          /\ Bytes(heap, fr[p].key) = ArgsOf(b).key
          /\ fr[p].val = (IF isSet THEN SubSlice(fr[p].raw, 6, 7) ELSE NilSlice)
          /\ Bytes(heap, fr[p].val) = ArgsOf(b).val
          /\ sres[p].err = NilErr =>
                /\ xres[p] = [Status |-> "StatusOkNoData", Err |-> NilErr, Data |-> NilSlice]
                /\ eff[p] = <<[op |-> fr[p].op, key |-> ArgsOf(b).key, val |-> fr[p].val]>>
          /\ sres[p].err # NilErr =>
                /\ xres[p].Status = "StatusErr"
                /\ xres[p].Err # NilErr
                /\ xres[p].Data = NilSlice
                /\ eff[p] = <<>>
          /\ (~isSet /\ ctx[p] = "nil") => xres[p].Status = "StatusOkNoData"

\* The first command, "DEL a" on the empty store, returned OkNoData
C14_Witness ==
    /\ calls = 1
    /\ ExecReturnedFrom(1, "Del")
    /\ Bytes(heap, fr[1].raw) = ExecLines[4]
    /\ fr[1].m0 = EmptyMap /\ m = EmptyMap
    /\ eff[1] = <<[op |-> "Del", key |-> <<97>>, val |-> NilSlice]>>
    /\ xres[1] = [Status |-> "StatusOkNoData", Err |-> NilErr, Data |-> NilSlice]

\* The raw commands of SpecExec that Compute.Parse rejects, with the error
\* each is rejected for: the empty and the blank command, the over-long one,
\* the unknown command name, the SET with one argument
RejectedFor(b) ==
    CASE b = <<>> \/ b = ExecLines[8] -> "empty query"
      [] b = ExecLines[7] -> "invalid len"
      [] b = ExecLines[6] -> "unknown command"
      [] b = ExecLines[5] -> "invalid arguments"
      [] OTHER -> "none"

(* C15: when Compute.Parse fails, Exec returns status Err with no data and
   makes no call to Storage: no engine operation is performed and the engine
   map is as it was. *)
C15_ParseFailureTouchesNothing ==
    \A p \in Procs :
       (ExecReturned(p) /\ RejectedFor(Bytes(heap, fr[p].raw)) # "none")
       => /\ xres[p].Status = "StatusErr"
          /\ xres[p].Data = NilSlice
          /\ \/ xres[p].Err \in {Canceled, DeadlineExceeded}
             \/ /\ Len(xres[p].Err.msg) >= 2
                /\ xres[p].Err.msg[1] = "parse query"
                /\ xres[p].Err.msg[2] = RejectedFor(Bytes(heap, fr[p].raw))
          /\ fr[p].op = "none" /\ fr[p].h = 0
          /\ eff[p] = <<>>
          /\ m = fr[p].m0

\* With "SET a 1" stored, Exec of "PING a" returned Err for the unknown
\* command, and the store still holds the key
C15_Witness ==
    /\ ExecReturned(1)
    /\ Bytes(heap, fr[1].raw) = ExecLines[6]
    /\ xres[1].Status = "StatusErr"
    /\ xres[1].Err = Textf("parse query", Wrapf(ErrUnknownCommand, <<Quote(<<80, 73, 78, 71>>)>>))
    /\ Len(hist) = 1 /\ hist[1].op = "Set"
    /\ <<97>> \in DOMAIN m /\ Contents[<<97>>] = <<49>>

\* The context Exec puts before the error of a failing step
StepName(op) == CASE op = "Set" -> "set query"
                  [] op = "Get" -> "get query"
                  [] op = "Del" -> "del query"
                  [] OTHER -> "parse query"

(* C16: the Err that Exec returns on a parse failure or on a failure of
   Storage's Set, Get or Del names the failing step (parse query, set query,
   get query, del query) and keeps the underlying error in its cause chain:
   EmptyQuery, InvalidLength, UnknownCommand, InvalidArguments, or the error
   Storage returned. *)
C16_ErrKeepsCause ==
    \A p \in Procs :
       ( /\ ExecReturned(p)
         /\ xres[p].Status = "StatusErr"
         /\ xres[p].Err \notin {Canceled, DeadlineExceeded} )
       => /\ xres[p].Err.msg[1] = StepName(fr[p].op)
          /\ IF fr[p].op = "none"
             THEN RejectedFor(Bytes(heap, fr[p].raw)) \in xres[p].Err.is
             ELSE sres[p].err.is # {} /\ sres[p].err.is \subseteq xres[p].Err.is

\* The statuses Exec returns
ExecStatuses == {"StatusOkNoData", "StatusOK", "StatusNotFound", "StatusUnsupported", "StatusErr"}

(* C17, as stated: every ExecResult that Exec returns has one of the five
   statuses and exactly one of its Data and Err fields populated. *)
C17_ExactlyOnePopulated ==
    \A p \in Procs :
       ExecReturned(p) =>
          /\ xres[p].Status \in ExecStatuses
          /\ (xres[p].Data # NilSlice) # (xres[p].Err # NilErr)

(* C17, amended: every ExecResult that Exec returns has one of the five
   statuses, never StatusUndefined, and at most one of its Data and Err fields
   populated, as the status says: Data with Ok and with no other status, Err
   with Err and Unsupported and with no other status; OkNoData and NotFound
   carry neither. *)
C17_AtMostOnePopulated ==
    \A p \in Procs :
       ExecReturned(p) =>
          /\ xres[p].Status \in ExecStatuses
          /\ (xres[p].Data # NilSlice) <=> (xres[p].Status = "StatusOK")
          /\ xres[p].Status = "StatusOK" => Len(Bytes(heap, xres[p].Data)) > 0
          /\ (xres[p].Err # NilErr) <=> (xres[p].Status \in {"StatusErr", "StatusUnsupported"})
          /\ ~(xres[p].Data # NilSlice /\ xres[p].Err # NilErr)

\* Results of three shapes in one run: "SET a 1" returned OkNoData, "GET a"
\* returned Ok with the data, and after a cancel "GET a" returned Err; the
\* state is the last return
C17_Witness ==
    /\ calls = 3
    /\ ExecReturned(1)
    /\ Len(hist) = 2 /\ hist[1].op = "Set" /\ hist[2].op = "Get"
    /\ hist[2].out = <<NilErr, <<49>>>>
    /\ xres[1] = [Status |-> "StatusErr", Err |-> Canceled, Data |-> NilSlice]

\* The statuses Exec returns with the Compute it is built with
ReachableStatuses == {"StatusOkNoData", "StatusOK", "StatusNotFound", "StatusErr"}

(* C25: with the real Compute, whose Parse returns only Set, Get and Del
   queries, Exec never returns status Unsupported: every command that parses
   is dispatched to a Storage operation, and the status of every returned
   ExecResult is OkNoData, Ok, NotFound or Err. *)
C25_UnsupportedUnreachable ==
    \A p \in Procs :
       /\ xres[p].Status # "StatusUnsupported"
       /\ ExecReturned(p) =>
             /\ xres[p].Status \in ReachableStatuses
             /\ (Parse(maxLen, Bytes(heap, fr[p].raw)).err = NilErr /\ xres[p].Err \notin {Canceled, DeadlineExceeded})
                   => fr[p].op \in {"Set", "Get", "Del"}

\* "SET a 1", "GET a" and "DEL a" were executed in turn, one command of each
\* query type, and the last returned OkNoData
C25_Witness ==
    /\ calls = 3
    /\ ExecReturnedFrom(1, "Del")
    /\ Len(hist) = 3 /\ hist[1].op = "Set" /\ hist[2].op = "Get" /\ hist[3].op = "Del"
    /\ xres[1].Status = "StatusOkNoData"
    /\ m = EmptyMap

\* The Exec call of p has returned a failure caused by the cancellation of
\* its context: its own pre-flight check failed, or the Storage operation it
\* called returned the context's error
FailedByCancellation(p) ==
    /\ ExecReturned(p)
    /\ xres[p].Status = "StatusErr"
    /\ \/ fr[p].op = "none" /\ xres[p].Err \in {Canceled, DeadlineExceeded}
       \/ fr[p].op # "none" /\ sres[p].err \in {Canceled, DeadlineExceeded}

(* C26: when Exec fails because its context was cancelled, the Err it returns
   is, or has in its cause chain, Canceled or DeadlineExceeded: both when the
   context was cancelled before Exec was called and when it was cancelled
   after Exec's pre-flight check but before Storage's own check. *)
C26_CancellationInChain ==
    \A p \in Procs :
       FailedByCancellation(p) =>
          xres[p].Err.is \cap {"context canceled", "context deadline exceeded"} # {}

----------------------------------------------------------------------------
(* Claims on Compute.Parse *)

\* Range f of b is a non-empty token of b: it holds no separator, and on each
\* side of it is a separator or an end of b
IsToken(b, f) ==
    /\ 0 <= f.lo /\ f.lo < f.hi /\ f.hi <= Len(b)
    /\ \A i \in (f.lo + 1)..f.hi :
          /\ b[i] \notin {9, 10, 11, 12, 13, 32}
          /\ ~(i < f.hi /\ b[i] = 194 /\ b[i + 1] \in {133, 160})
    /\ \/ f.lo = 0
       \/ b[f.lo] \in {9, 10, 11, 12, 13, 32}
       \/ f.lo >= 2 /\ b[f.lo - 1] = 194 /\ b[f.lo] \in {133, 160}
    /\ \/ f.hi = Len(b)
       \/ b[f.hi + 1] \in {9, 10, 11, 12, 13, 32}
       \/ f.hi + 2 <= Len(b) /\ b[f.hi + 1] = 194 /\ b[f.hi + 2] \in {133, 160}

(* C18: for every maximum length >= 0 and every input, Parse returns exactly
   one of a non-nil query and a non-nil error; a query it returns is a
   SetQuery, GetQuery or DelQuery whose key, and value for a SetQuery, are
   non-empty tokens of the input. *)
C18_QueryOrError ==
    parsed.called =>
       /\ (parsed.q # NilQuery) # (parsed.err # NilErr)
       /\ parsed.err # NilErr =>
             /\ parsed.err.is # {}
             /\ parsed.err.is \subseteq {"empty query", "invalid len", "unknown command", "invalid arguments"}
       /\ parsed.q # NilQuery =>
             /\ parsed.q.type \in {"SetQuery", "GetQuery", "DelQuery"}
             /\ IsToken(parsed.raw, parsed.q.key)
             /\ IF parsed.q.type = "SetQuery"
                THEN IsToken(parsed.raw, parsed.q.val) /\ parsed.q.key.hi < parsed.q.val.lo
                ELSE parsed.q.val = [lo |-> 0, hi |-> 0]

\* "sEt\u00a0ab get\t" parsed to a SetQuery with key "ab" and value "get"
C18_Witness ==
    /\ parsed.called
    /\ parsed.raw = <<115, 69, 116, 194, 160, 97, 98, 32, 103, 101, 116, 9>>
    /\ parsed.err = NilErr
    /\ parsed.q.type = "SetQuery"
    /\ FieldBytes(parsed.raw, parsed.q.key) = <<97, 98>>
    /\ FieldBytes(parsed.raw, parsed.q.val) = <<103, 101, 116>>

(* C19: the length ceiling is applied to the raw length, before the split:
   an input whose raw length is exactly the maximum parses as it does under
   a larger maximum, also when the length is reached by padding; an input of
   raw length maximum + 1 gives InvalidLen and no query, whatever it
   holds. *)
C19_LengthCeiling ==
    parsed.called =>
       /\ Len(parsed.raw) = maxLen + 1 =>
             /\ parsed.q = NilQuery
             /\ parsed.err.is = {"invalid len"}
       /\ Len(parsed.raw) = maxLen =>
             /\ "invalid len" \notin parsed.err.is
             /\ [q |-> parsed.q, err |-> parsed.err] = Parse(maxLen + 1, parsed.raw)

\* A SET padded with a tab to exactly the maximum length parsed to a
\* SetQuery; with one more space at its end it gave InvalidLen
C19_Witness ==
    /\ parsed.called /\ parsed.of # <<>>
    /\ maxLen > 0
    /\ Len(parsed.of[1].raw) = maxLen
    /\ parsed.of[1].raw[maxLen] = 9
    /\ parsed.of[1].q.type = "SetQuery"
    /\ parsed.raw = parsed.of[1].raw \o <<32>>
    /\ parsed.q = NilQuery
    /\ parsed.err.is = {"invalid len"}

(* C20: what Parse returns does not change when a letter of the command name
   changes case or when a space or a tab is added in front, at the end or
   next to a separator, as long as the input stays within the length limit:
   a command and its variant parse to queries of the same type with the same
   key and value, and an input that is rejected has its variant rejected for
   the same reason. *)
C20_CaseAndSpacingInvariant ==
    (parsed.called /\ parsed.of # <<>> /\ Len(parsed.raw) <= maxLen) =>
       LET base == parsed.of[1] IN
       IF base.q # NilQuery
       THEN /\ parsed.err = NilErr
            /\ parsed.q.type = base.q.type
            /\ FieldBytes(parsed.raw, parsed.q.key) = FieldBytes(base.raw, base.q.key)
            /\ FieldBytes(parsed.raw, parsed.q.val) = FieldBytes(base.raw, base.q.val)
       ELSE /\ parsed.q = NilQuery
            /\ parsed.err.is = base.err.is

\* "DEL ab" parsed to a DelQuery with key "ab", and so did "DEl ab"
C20_Witness ==
    /\ parsed.called /\ parsed.of # <<>>
    /\ parsed.of[1].raw = <<68, 69, 76, 32, 97, 98>>
    /\ parsed.of[1].q.type = "DelQuery"
    /\ parsed.raw = <<68, 69, 108, 32, 97, 98>>
    /\ parsed.q.type = "DelQuery"
    /\ FieldBytes(parsed.raw, parsed.q.key) = <<97, 98>>

\* Byte i of b is a separator of bytes.Fields, or part of one
SepByte(b, i) ==
    \/ b[i] \in {9, 10, 11, 12, 13, 32}
    \/ b[i] = 194 /\ i < Len(b) /\ b[i + 1] \in {133, 160}
    \/ b[i] \in {133, 160} /\ i > 1 /\ b[i - 1] = 194

\* Where the tokens of b start, and how many there are
TokenStarts(b) == {i \in 1..Len(b) : ~SepByte(b, i) /\ (i = 1 \/ SepByte(b, i - 1))}

\* The first token of b (b has one)
FirstToken(b) ==
    LET lo == CHOOSE i \in TokenStarts(b) : \A j \in TokenStarts(b) : i <= j
        hi == CHOOSE i \in lo..Len(b) :
                 /\ i = Len(b) \/ SepByte(b, i + 1)
                 /\ \A j \in lo..i : ~SepByte(b, j)
    IN SubSeq(b, lo, hi)

\* A token with its letters a-z replaced by A-Z
AsciiUpper(t) == [i \in 1..Len(t) |-> IF t[i] \in 97..122 THEN t[i] - 32 ELSE t[i]]

\* The number of fields a command takes, and the type of its query
ArgsLen(name) == IF name = upperCommandSet THEN 3 ELSE 2

QueryTypeOf(name) ==
    CASE name = upperCommandSet -> "SetQuery"
      [] name = upperCommandGet -> "GetQuery"
      [] name = upperCommandDel -> "DelQuery"
      [] OTHER -> "nil"

\* The input of the last Parse call is within the length limit and has a token
Splits == parsed.called /\ Len(parsed.raw) <= maxLen /\ TokenStarts(parsed.raw) # {}

(* C21: Parse enforces the field count of each command: a SET line gives a
   query only with exactly 3 fields, a GET or DEL line only with exactly 2;
   with any other count, smaller or larger, it gives InvalidArguments and no
   query. *)
C21_FieldCount ==
    (Splits /\ QueryTypeOf(AsciiUpper(FirstToken(parsed.raw))) # "nil") =>
       LET name == AsciiUpper(FirstToken(parsed.raw))
           n == Cardinality(TokenStarts(parsed.raw))
       IN
       IF n = ArgsLen(name)
       THEN parsed.err = NilErr /\ parsed.q.type = QueryTypeOf(name)
       ELSE /\ parsed.q = NilQuery
            /\ parsed.err.is = {"invalid arguments"}
            /\ parsed.err.msg[3] = ArgsLen(name) /\ parsed.err.msg[5] = n

\* "DEL" and then "DEL " were rejected with InvalidArguments: one field, where
\* DEL takes two
C21_Witness ==
    /\ parsed.called /\ parsed.of # <<>>
    /\ parsed.of[1].raw = <<68, 69, 76>>
    /\ parsed.of[1].err.is = {"invalid arguments"}
    /\ parsed.raw = <<68, 69, 76, 32>>
    /\ parsed.q = NilQuery
    /\ parsed.err = Wrapf(ErrInvalidArguments, <<"del expects", 2, "arguments, got", 1>>)

(* C22: Parse returns a Set, Get or Del query only when the first field is
   SET, GET or DEL in some mix of upper and lower case letters; every other
   first token gives UnknownCommand, naming that token unchanged. *)
C22_CommandNames ==
    Splits =>
       LET tok == FirstToken(parsed.raw) IN
       IF QueryTypeOf(AsciiUpper(tok)) # "nil"
       THEN parsed.q # NilQuery => parsed.q.type = QueryTypeOf(AsciiUpper(tok))
       ELSE /\ parsed.q = NilQuery
            /\ parsed.err = Wrapf(ErrUnknownCommand, <<Quote(tok)>>)

(* C29: Parse reports the first check that fails, in the order zero length,
   raw length above the maximum, no fields, unknown command, wrong field
   count: the zero-length input gives EmptyQuery for every maximum; an input
   of separators only gives InvalidLen when it is longer than the maximum and
   EmptyQuery when it is not; an input longer than the maximum gives
   InvalidLen whatever it holds; an unknown command gives UnknownCommand
   whatever the number of its fields. *)
C29_CheckOrder ==
    parsed.called =>
       LET b == parsed.raw IN
       /\ Len(b) = 0 => (parsed.q = NilQuery /\ parsed.err = ErrEmptyQuery)
       /\ Len(b) > maxLen =>
             /\ parsed.q = NilQuery
             /\ parsed.err = Wrapf(ErrInvalidLen, <<"expected from 0 to", maxLen, "got", Len(b)>>)
       /\ (Len(b) <= maxLen /\ TokenStarts(b) = {}) =>
             (parsed.q = NilQuery /\ parsed.err = ErrEmptyQuery)
       /\ ( /\ Splits
            /\ \A i \in 1..Len(FirstToken(b)) : FirstToken(b)[i] < 128
            /\ QueryTypeOf(AsciiUpper(FirstToken(b))) = "nil" )
          => (parsed.q = NilQuery /\ parsed.err.is = {"unknown command"})

\* With maximum length 1, " " gave EmptyQuery and " \t" gave InvalidLen
C29_Witness ==
    /\ parsed.called /\ parsed.of # <<>>
    /\ maxLen = 1
    /\ parsed.of[1].raw = <<32>>
    /\ parsed.of[1].err = ErrEmptyQuery
    /\ parsed.raw = <<32, 9>>
    /\ parsed.q = NilQuery
    /\ parsed.err.is = {"invalid len"}

\* Range f of b is a maximal run of bytes other than space and tab
IsSpaceTabRun(b, f) ==
    /\ 0 <= f.lo /\ f.lo < f.hi /\ f.hi <= Len(b)
    /\ \A i \in (f.lo + 1)..f.hi : b[i] \notin {9, 32}
    /\ f.lo = 0 \/ b[f.lo] \in {9, 32}
    /\ f.hi = Len(b) \/ b[f.hi + 1] \in {9, 32}

\* The number of maximal runs of bytes other than space and tab in b
SpaceTabRuns(b) ==
    Cardinality({i \in 1..Len(b) : b[i] \notin {9, 32} /\ (i = 1 \/ b[i - 1] \in {9, 32})})

(* C30: key and value are taken verbatim: the fields of a line are its
   maximal runs of bytes other than space and tab, in order, and the key and
   value of the query returned are the second and third of these runs,
   unchanged; no other byte acts as a separator. *)
C30_TokensVerbatim ==
    (parsed.called /\ parsed.q # NilQuery) =>
       /\ IsSpaceTabRun(parsed.raw, parsed.q.key)
       /\ SpaceTabRuns(SubSeq(parsed.raw, 1, parsed.q.key.lo)) = 1
       /\ parsed.q.type = "SetQuery" =>
             /\ IsSpaceTabRun(parsed.raw, parsed.q.val)
             /\ SpaceTabRuns(SubSeq(parsed.raw, 1, parsed.q.val.lo)) = 2
       /\ SpaceTabRuns(parsed.raw) = ArgsLen(ToUpper(FieldBytes(parsed.raw, Fields(parsed.raw)[1])))

----------------------------------------------------------------------------
(* Claims on the front end *)

\* What a sequential map prints on stdout for lines i.. of the input, from map
\* mm: OK for SET and DEL, the value or NOT_FOUND for GET, nothing for others
RECURSIVE RefOut(_, _, _)
RefOut(lines, i, mm) ==
    IF i > Len(lines) THEN <<>>
    ELSE LET b == lines[i]
             cmd == IF Len(b) >= 5 THEN SubSeq(b, 1, 3) ELSE <<>>
             k == ArgsOf(b).key
         IN
         CASE cmd = upperCommandSet ->
                 <<resultOK>> \o RefOut(lines, i + 1, [x \in (DOMAIN mm) \cup {k} |->
                                                         IF x = k THEN ArgsOf(b).val ELSE mm[x]])
           [] cmd = upperCommandGet ->
                 <<IF k \in DOMAIN mm THEN mm[k] ELSE resultNotFound>> \o RefOut(lines, i + 1, mm)
           [] cmd = upperCommandDel ->
                 <<resultOK>> \o RefOut(lines, i + 1, [x \in (DOMAIN mm) \ {k} |-> mm[x]])
           [] OTHER -> RefOut(lines, i + 1, mm)

(* C1: the lines App.Run writes to stdout are those a sequential map gives
   for the input: OK for each SET and DEL, and for each GET the value of the
   latest SET of its key not followed by a DEL, or NOT_FOUND; however many
   lines were read in between. *)
C1_OutputMatchesSequentialMap ==
    LET ref == RefOut(input, 1, [k \in {} |-> <<>>]) IN
    /\ Len(stdout) <= Len(ref)
    /\ \A i \in 1..Len(stdout) : stdout[i] = ref[i]
    /\ run = "done" => stdout = ref
----------------------------------------------------------------------------
(* SpecConc: NProcs goroutines share one Database and each makes one call,  *)
(* of Storage's Set, Get or Del or of Exec, concurrently under a fair       *)
(* scheduler; the goroutines are numbered in the order in which they make  *)
(* their calls.                                                            *)

\* The key and the value of the direct Storage calls: "a", "1"
ConcKeys == {Slice(1, 0, 1)}

ConcVals == {Slice(3, 0, 1)}

\* The commands of the Exec calls: "SET a 2", "GET a", "PING a"
ConcRaws == {Slice(Len(LitHeap) + i, 0, Len(ExecLines[i])) : i \in {2, 3, 6}}

InitConc ==
    /\ m = EmptyMap
    /\ mu = 0
    /\ pc = [p \in Procs |-> "idle"]
    /\ fr = [p \in Procs |-> NoFrame]
    /\ sres = [p \in Procs |-> NoSRes]
    /\ xres = [p \in Procs |-> NoXRes]
    /\ eff = [p \in Procs |-> <<>>]
    /\ hist = <<>>
    /\ calls = 0
    /\ maxLen = TestMaxLen
    /\ NoCli
    /\ parsed = NoParse
    /\ heap = ExecHeap
    /\ ctx = [p \in Procs |-> "nil"]

\* The next goroutine calls Set, Get or Del of the Storage
ConcStorageCall(p) ==
    /\ p = calls + 1
    /\ StorageCall(p, ConcKeys, ConcVals)

\* The next goroutine calls Exec
ConcExecCall(p) ==
    /\ p = calls + 1
    /\ \E raw \in ConcRaws : ExecBegin(p, raw)
    /\ UNCHANGED <<cliVars, parsed>>

\* The steps of a call of goroutine p other than the parse
ConcStep(p) ==
    \/ EngineLock(p)
    \/ EngineAccess(p)
    \/ EngineUnlock(p)
    \/ ExecFinish(p)

NextConc ==
    \E p \in Procs :
        \/ ConcStorageCall(p)
        \/ ConcExecCall(p)
        \/ ExecParse(p)
        \/ ConcStep(p)

\* Every goroutine that can take a step of its call takes it in the end;
\* ExecParse(p) can be taken whenever p is at "parse"
ConcFair ==
    \A p \in Procs :
       /\ WF_vars(ConcStep(p))
       /\ []<>(pc[p] # "parse") \/ []<><<ExecParse(p)>>_vars

SpecConc == InitConc /\ [][NextConc]_vars /\ ConcFair

----------------------------------------------------------------------------
(* SpecCliLong: App.Run with a Compute of maximum length TestMaxLen, over   *)
(* inputs with lines longer than that maximum, one of them longer than the *)
(* scanner's largest buffer.                                               *)

\* The length of the longest line
LongLineLen == 40

\* "GET a", "GET aaaaaa", and a line of LongLineLen bytes "x"
LongLines == { <<71, 69, 84, 32, 97>>,
               <<71, 69, 84, 32, 97, 97, 97, 97, 97, 97>>,
               [i \in 1..LongLineLen |-> 120] }

InitCliLong ==
    /\ m = EmptyMap
    /\ mu = 0
    /\ pc = [p \in Procs |-> "idle"]
    /\ fr = [p \in Procs |-> NoFrame]
    /\ sres = [p \in Procs |-> NoSRes]
    /\ xres = [p \in Procs |-> NoXRes]
    /\ eff = [p \in Procs |-> <<>>]
    /\ hist = <<>>
    /\ calls = 0
    /\ parsed = NoParse
    /\ maxLen = TestMaxLen
    /\ heap = <<>>
    /\ ctx = [p \in Procs |-> "nil"]
    /\ input \in UNION {[1..n -> LongLines] : n \in 1..FairMaxLines}
    /\ stdin = Feed(input)
    /\ stdinOpen = FALSE
    /\ sc = NewScanner
    /\ stdout = <<>>
    /\ stderr = <<>>
    /\ run = "scan"
    /\ broken = {}
    /\ werr = NoWErr

SpecCliLong == InitCliLong /\ [][NextCli]_vars

----------------------------------------------------------------------------
(* SpecCliIO: App.Run with channels that may fail: any read of a broken     *)
(* stdin and any write to a broken stdout or stderr may return an error.   *)

\* The longest input, in lines
IOMaxLines == 2

InitCliIO ==
    /\ m = EmptyMap
    /\ mu = 0
    /\ pc = [p \in Procs |-> "idle"]
    /\ fr = [p \in Procs |-> NoFrame]
    /\ sres = [p \in Procs |-> NoSRes]
    /\ xres = [p \in Procs |-> NoXRes]
    /\ eff = [p \in Procs |-> <<>>]
    /\ hist = <<>>
    /\ calls = 0
    /\ parsed = NoParse
    /\ maxLen = maxCommandLen
    /\ heap = <<>>
    /\ ctx = [p \in Procs |-> "nil"]
    /\ input \in UNION {[1..n -> FairLines] : n \in 1..IOMaxLines}
    /\ stdin = Feed(input)
    /\ stdinOpen = FALSE
    /\ sc = NewScanner
    /\ stdout = <<>>
    /\ stderr = <<>>
    /\ run = "scan"
    /\ broken \in SUBSET {"stdin", "stdout", "stderr"}
    /\ werr = NoWErr

SpecCliIO == InitCliIO /\ [][NextCli]_vars

----------------------------------------------------------------------------
(* SpecTty: the server as run() starts it, reading an open stdin: lines     *)
(* arrive while App.Run is running, stdin may be closed, and SIGINT or     *)
(* SIGTERM may arrive.  Only the program is scheduled fairly: nothing       *)
(* obliges the user to type or to close stdin.                             *)

\* The most lines that arrive on stdin
TtyMaxLines == 2

InitTty ==
    /\ m = EmptyMap
    /\ mu = 0
    /\ pc = [p \in Procs |-> "idle"]
    /\ fr = [p \in Procs |-> NoFrame]
    /\ sres = [p \in Procs |-> NoSRes]
    /\ xres = [p \in Procs |-> NoXRes]
    /\ eff = [p \in Procs |-> <<>>]
    /\ hist = <<>>
    /\ calls = 0
    /\ parsed = NoParse
    /\ maxLen = maxCommandLen
    /\ heap = <<>>
    /\ ctx = [p \in Procs |-> "nil"]
    /\ input = <<>>
    /\ stdin = <<>>
    /\ stdinOpen = TRUE
    /\ sc = NewScanner
    /\ stdout = <<>>
    /\ stderr = <<>>
    /\ run = "scan"
    /\ broken = {}
    /\ werr = NoWErr

\* A line and its newline arrive on stdin
UserTypes ==
    /\ stdinOpen
    /\ Len(input) < TtyMaxLines
    /\ \E line \in FairLines :
          /\ input' = Append(input, line)
          /\ stdin' = stdin \o line \o <<10>>
    /\ UNCHANGED <<heap, m, mu, ctx, pc, fr, sres, xres, eff, hist, calls, maxLen, stdinOpen, sc, stdout, stderr, run, broken, werr, parsed>>

\* stdin is closed: the reads after the bytes that have arrived give EOF
UserCloses ==
    /\ stdinOpen
    /\ stdinOpen' = FALSE
    /\ UNCHANGED <<heap, m, mu, ctx, pc, fr, sres, xres, eff, hist, calls, maxLen, input, stdin, sc, stdout, stderr, run, broken, werr, parsed>>

\* SIGINT or SIGTERM arrives: signal.NotifyContext cancels the context that
\* run() passes, through the errgroup, to App.Run; the process goes on
Signal ==
    /\ ctx[1] = "nil"
    /\ ctx' = [ctx EXCEPT ![1] = "Canceled"]
    /\ UNCHANGED <<heap, m, mu, pc, fr, sres, xres, eff, hist, calls, maxLen, cliVars, parsed>>

NextTty ==
    \/ NextCli
    \/ UserTypes
    \/ UserCloses
    \/ Signal

SpecTty == InitTty /\ [][NextTty]_vars /\ WF_vars(RunStep) /\ ParseFair

----------------------------------------------------------------------------
(* Claims on the front end, continued *)

\* The number of lines Run has answered, on either channel
Answered == Len(stdout) + Len(stderr)

\* The line Run is executing is the next input line not yet answered, and
\* when Run has returned it has answered every line and returned nil
C23_State ==
    /\ Answered <= Len(input)
    /\ run \in {"exec", "wait"} =>
          /\ Answered < Len(input)
          /\ Bytes(heap, sc.tok) = input[Answered + 1]
    /\ run = "wait" => fr[1].raw = sc.tok
    /\ run = "done" => (Answered = Len(input) /\ RunResult = NilErr)

\* A line is written only for a result Exec has returned, one line for it: on
\* stderr the error when Err is not nil, on stdout otherwise OK, NOT_FOUND or
\* the data; Run then scans on
C23_Step ==
    LET r == xres[1]
        written == stdout' # stdout \/ stderr' # stderr
    IN
    /\ written => (run = "wait" /\ pc[1] = "idle")
    /\ (run = "wait" /\ run' # "wait") =>
          /\ run' = "scan"
          /\ IF r.Err # NilErr
             THEN stderr' = Append(stderr, r.Err.msg) /\ stdout' = stdout
             ELSE /\ stderr' = stderr
                  /\ stdout' = Append(stdout, CASE r.Status = "StatusOkNoData" -> resultOK
                                                [] r.Status = "StatusNotFound" -> resultNotFound
                                                [] r.Status = "StatusOK" -> Bytes(heap, r.Data))

(* C23: App.Run answers every input line with exactly one output line, in
   input order: on the error channel exactly when the ExecResult's Err is not
   nil, on the success channel otherwise (OK, NOT_FOUND or the data).  It
   goes on with the next line after an error line, reaches the end of the
   input, and returns nil there. *)
C23_OneAnswerPerLine ==
    /\ []C23_State
    /\ [][C23_Step]_vars
    /\ <>(run = "done")

\* Run has returned after "PING", "SET a 1", "GET a": the first line was
\* answered on stderr with the unknown-command error, the next two on stdout
C23_Witness ==
    /\ run = "done"
    /\ input = << <<80, 73, 78, 71>>, <<83, 69, 84, 32, 97, 32, 49>>, <<71, 69, 84, 32, 97>> >>
    /\ stderr = << Textf("parse query", Wrapf(ErrUnknownCommand, <<Quote(<<80, 73, 78, 71>>)>>)).msg >>
    /\ stdout = << resultOK, <<49>> >>
    /\ RunResult = NilErr

\* The input lines longer than the maximum length of the Compute
TooLong == {i \in 1..Len(input) : Len(input[i]) > maxLen}

(* C24: the front end has no limit of its own on the length of a line: every
   line longer than the configured maximum, however long, is passed to Exec
   whole and answered on the error channel with the invalid-length error, and
   Run goes on to the end of the input. *)
C24_NoFrontEndLengthLimit ==
    /\ run \in {"exec", "wait"} =>
          /\ Answered < Len(input)
          /\ Bytes(heap, sc.tok) = input[Answered + 1]
    /\ run = "done" =>
          /\ RunResult = NilErr
          /\ Answered = Len(input)
          /\ Cardinality({i \in 1..Len(stderr) : stderr[i][2] = "invalid len"}) = Cardinality(TooLong)

(* C27: once the run context is cancelled, by SIGINT or SIGTERM, App.Run
   returns in the end, and with it run() and the process, whether or not
   more input or the end of the input arrives. *)
C27_CancelEndsRun == (ctx[1] # "nil") ~> (run = "done")

\* A write of Run has failed
WriteFailed == werr.ch # "none"

\* A read of the input has failed
ReadFailed == sc.err = "ReadErr"

\* What the error Run returns begins with, for the channel that failed
ChannelName(ch) == CASE ch = "stdout" -> "writing to stdout"
                     [] ch = "stderr" -> "writing to stderr"
                     [] ch = "stdin" -> "scan"

\* Run has returned when a write has failed, and the error it returns after
\* a failure names the channel that failed
C31_State ==
    /\ WriteFailed => run = "done"
    /\ (run = "done" /\ WriteFailed) =>
          RunResult = Textf(ChannelName(werr.ch), IoErr(werr.ch))
    /\ (run = "done" /\ ~WriteFailed /\ ReadFailed) =>
          RunResult = Textf(ChannelName("stdin"), IoErr("stdin"))

\* After a failed write no Exec call is made and the store stays as it is
C31_AfterWriteFailure == WriteFailed => (calls' = calls /\ m' = m /\ pc' = pc)

\* After a failed read no Exec call is made and the store stays as it is
C31_AfterReadFailure == ReadFailed => (calls' = calls /\ m' = m /\ pc' = pc)

(* C31: App.Run stops at the first I/O failure: when a write of a result or
   of its newline to stdout fails, when a write of an error or of its newline
   to stderr fails, or when a read of the input fails, Run returns an error
   that names the failing channel, and no input line is executed against the
   database after the failure. *)
C31_StopsAtFirstIOFailure ==
    /\ []C31_State
    /\ [][C31_AfterWriteFailure /\ C31_AfterReadFailure]_vars

----------------------------------------------------------------------------
(* Claims on the mutex *)

\* The goroutines inside the critical section of the engine
InCritical == {p \in Procs : pc[p] \in {"crit", "unlock"}}

\* The mutex is held by the one goroutine inside the critical section and by
\* nobody when none is inside
C28_Mutex ==
    /\ Cardinality(InCritical) <= 1
    /\ \A p \in InCritical : mu = p
    /\ mu # 0 => mu \in InCritical

\* When a call is in progress some goroutine can take a step
C28_NoDeadlock ==
    (\E p \in Procs : pc[p] # "idle")
    => \E p \in Procs : pc[p] \in {"parse", "crit", "unlock", "sret"} \/ (pc[p] = "lock" /\ mu = 0)

(* C28: the engine's mutex is held only for the access to the map and is
   released on every path: at most one caller is inside the critical section
   at a time, the callers never deadlock, and under a fair scheduler every
   Set, Get, Del and Exec call made by the concurrent callers returns in the
   end. *)
C28_MutexSafeAndLive ==
    /\ [](C28_Mutex /\ C28_NoDeadlock)
    /\ \A p \in Procs : (pc[p] # "idle") ~> (pc[p] = "idle")

\* Goroutine 1 is inside the critical section for a direct Storage call while
\* goroutine 2, in an Exec, and goroutine 3, in a direct call, wait in Lock
C28_Witness ==
    /\ pc[1] = "crit" /\ fr[1].entry = "storage" /\ mu = 1
    /\ pc[2] = "lock" /\ fr[2].entry = "exec"
    /\ pc[3] = "lock" /\ fr[3].entry = "storage"

----------------------------------------------------------------------------
(* Claims on the engine's frame *)

\* The step is the engine operation of caller p: the map access between Lock
\* and Unlock
EngineStep(p) == pc[p] = "crit" /\ pc'[p] = "unlock"

\* Key x is as present after the step as before it, with the same slice as
\* its value and the same bytes in it
KeyUntouched(x) ==
    /\ (x \in DOMAIN m') <=> (x \in DOMAIN m)
    /\ x \in DOMAIN m => (m'[x] = m[x] /\ Bytes(heap', m'[x]) = Bytes(heap, m[x]))

(* C32: an engine operation touches only the key it is called with: Get
   leaves the mapping as it is, and Set(K, V) and Del(K) leave the presence
   and the value of every key other than K as they are, where keys are
   compared byte for byte: a key that differs from K in any byte, or in
   length, is another key.  After Set K is present with V, after Del K is
   absent. *)
C32_OnlyAddressedKey ==
    [][ \A p \in Procs :
          EngineStep(p) =>
             LET k == Bytes(heap, fr[p].key) IN
             /\ \A x \in (DOMAIN m \cup DOMAIN m') : x # k => KeyUntouched(x)
             /\ fr[p].op = "Get" => m' = m
             /\ fr[p].op = "Set" => (k \in DOMAIN m' /\ m'[k] = fr[p].val)
             /\ fr[p].op = "Del" => k \notin DOMAIN m' ]_vars

\* Set("a", ...), Set("", ...) and Del("a") were made in turn: the empty key,
\* which differs from "a" in length only, is still there with its value
C32_Witness ==
    /\ calls = 3 /\ pc[1] = "idle"
    /\ Len(hist) = 3
    /\ hist[1].op = "Set" /\ hist[1].key = <<97>>
    /\ hist[2].op = "Set" /\ hist[2].key = <<>> /\ hist[2].arg = <<50>>
    /\ hist[3].op = "Del" /\ hist[3].key = <<97>> /\ hist[3].ret # 0
    /\ DOMAIN m = {<<>>}
    /\ Contents[<<>>] = <<50>>

====
